---- MODULE Spec2Model ----
(***************************************************************************)
(* A model of the command front-ends of the ir tools: the decode command   *)
(* (src/src/bin/commands/decode.rs), the config/load/auto commands         *)
(* (src/cir/src/bin/commands/config.rs) and the graphviz dump              *)
(* (src/irp/src/graphviz.rs).  The Matcher and the NFA builder are not     *)
(* part of these files; the Matcher is modelled from section 4.4 of the    *)
(* specification and the NFAs are a small library of hand-built graphs.    *)
(***************************************************************************)
EXTENDS Integers, Sequences, FiniteSets, TLC

\* ------------------------------------------------------------------ bounds

\* the longest raw input (number of durations) given on the command line
MaxRawLen == 4
\* the number of command-line inputs (FILE and RAWIR arguments) of one run
MaxInputs == 2
\* the number of NFAs (IRP or lircd.conf remotes) of one decode run
MaxIrps == 2
\* the longest batch of tokens one receive_raw call returns
MaxBatch == 2
\* the number of tokens the live receive loop is followed for
MaxLiveTokens == 4
\* the number of keymap files of one load or auto run
MaxKeymaps == 2
\* the number of SCANKEY arguments of one config run
MaxScankeys == 2
\* the number of PROTOCOL arguments of one config run
MaxProtocols == 2
\* the number of vertices of the longest graph that is dumped
MaxVerts == 28
\* the number of entries of the states annotation of a dump
MaxStates == 2

\* --------------------------------------------------------------- utilities

None == "none"

Range(s) == {s[i] : i \in 1..Len(s)}

RECURSIVE SeqsUpTo(_, _)
SeqsUpTo(S, n) ==
    IF n = 0 THEN {<< >>}
    ELSE LET shorter == SeqsUpTo(S, n - 1)
         IN  shorter \cup {Append(s, x) : s \in {t \in shorter : Len(t) = n - 1}, x \in S}

\* ------------------------------------------------ NFA graphs (build_nfa)

EmptyVars == [n \in {} |-> 0]

Flash(length, dest) ==
    [e |-> "Flash", length |-> length, complete |-> TRUE, dest |-> dest, no |-> 0, expr |-> None]
Gap(length, dest) ==
    [e |-> "Gap", length |-> length, complete |-> TRUE, dest |-> dest, no |-> 0, expr |-> None]
Branch(dest) ==
    [e |-> "Branch", length |-> 0, complete |-> FALSE, dest |-> dest, no |-> 0, expr |-> None]
BranchCond(expr, yes, no) ==
    [e |-> "BranchCond", length |-> 0, complete |-> FALSE, dest |-> yes, no |-> no, expr |-> expr]
MayBranchCond(expr, dest) ==
    [e |-> "MayBranchCond", length |-> 0, complete |-> FALSE, dest |-> dest, no |-> 0, expr |-> expr]

Set(var, expr) == [a |-> "Set", var |-> var, expr |-> expr, res |-> << >>]
AssertEq(left, right) == [a |-> "AssertEq", var |-> left, expr |-> right, res |-> << >>]
Done(event, res) == [a |-> "Done", var |-> event, expr |-> None, res |-> res]

Vertex(actions, edges) == [actions |-> actions, edges |-> edges]

\* expressions over a Vartable: a constant, a variable plus a constant, and
\* the conditions "variable below a constant" and "always"
Const(c) == [op |-> "const", name |-> None, c |-> c]
Plus(name, c) == [op |-> "plus", name |-> name, c |-> c]
Below(name, c) == [op |-> "below", name |-> name, c |-> c]
Always == [op |-> "always", name |-> None, c |-> 0]

\* a frame of flash, long gap, flash: 500 -100000 500
NfaLongGap ==
    << Vertex(<< >>, << Flash(500, 1) >>),
       Vertex(<< Set("CODE", Const(1)) >>, << Gap(100000, 2) >>),
       Vertex(<< >>, << Flash(500, 3) >>),
       Vertex(<< Done("decoded", << "CODE" >>) >>, << >>) >>

\* two hypotheses for the same flash, both completing on the same gap; the
\* speculative edge of vertex 1 leads to where its gap edge leads
NfaTwoDone ==
    << Vertex(<< >>, << Flash(500, 1), Flash(500, 2) >>),
       Vertex(<< Set("CODE", Const(1)) >>, << MayBranchCond(Always, 5), Gap(500, 3) >>),
       Vertex(<< Set("CODE", Const(2)) >>, << Gap(500, 4) >>),
       Vertex(<< Done("decoded", << "CODE" >>) >>, << >>),
       Vertex(<< Done("decoded", << "CODE" >>) >>, << >>),
       Vertex(<< >>, << Gap(500, 3) >>) >>

\* a repeat group with a back edge: (500 -500)2
NfaRepeat ==
    << Vertex(<< >>, << Flash(500, 1), Flash(1000, 1) >>),
       Vertex(<< Set("N", Const(0)) >>, << Gap(500, 2) >>),
       Vertex(<< Set("N", Plus("N", 1)) >>, << BranchCond(Below("N", 2), 3, 5) >>),
       Vertex(<< >>, << Flash(500, 4) >>),
       Vertex(<< >>, << Gap(500, 6) >>),
       Vertex(<< AssertEq("N", Const(2)), Done("decoded", << "N" >>) >>, << >>),
       Vertex(<< >>, << Branch(2) >>) >>

NfaLib == << NfaLongGap, NfaTwoDone, NfaRepeat >>

\* vertex n of NFA g (vertices are indexed from 0, as in the source)
Vert(g, n) == NfaLib[g][n + 1]

\* the NFAs whose Done reports CODE, as the IRP of a lircd.conf remote does
RemoteNfas == {1, 2}

\* ----------------------------------------- Matcher (specification, 4.4)

\* InfraredData
IrFlash(value) == [t |-> "Flash", value |-> value]
IrGap(value) == [t |-> "Gap", value |-> value]
IrReset == [t |-> "Reset", value |-> 0]

Eval(expr, vars) ==
    CASE expr.op = "const" -> expr.c
      [] expr.op = "plus" -> vars[expr.name] + expr.c
      [] expr.op = "below" -> vars[expr.name] < expr.c
      [] expr.op = "always" -> TRUE

Bind(vars, name, val) ==
    [n \in (DOMAIN vars) \cup {name} |-> IF n = name THEN val ELSE vars[n]]

\* the actions of a vertex, in order, on the binding of a thread that arrives
\* there: a failed assertion kills the thread
RECURSIVE RunActions(_, _, _)
RunActions(actions, i, st) ==
    IF i > Len(actions) \/ ~st.ok THEN st
    ELSE LET a == actions[i]
         IN  CASE a.a = "Set" ->
                    RunActions(actions, i + 1,
                               [st EXCEPT !.vars = Bind(st.vars, a.var, Eval(a.expr, st.vars))])
               [] a.a = "AssertEq" ->
                    RunActions(actions, i + 1,
                               [st EXCEPT !.ok = a.var \in DOMAIN st.vars
                                                 /\ st.vars[a.var] = Eval(a.expr, st.vars)])
               [] a.a = "Done" -> RunActions(actions, i + 1, st)

HasDone(g, v) == \E i \in 1..Len(Vert(g, v).actions) : Vert(g, v).actions[i].a = "Done"

\* the result of a thread at a Done vertex: the result bindings by name
DoneResult(g, th) ==
    LET d == CHOOSE i \in 1..Len(Vert(g, th.v).actions) : Vert(g, th.v).actions[i].a = "Done"
    IN  [n \in Range(Vert(g, th.v).actions[d].res) |-> th.vars[n]]

\* admissibility band of a nominal length (4.3)
BandLo(m, length) == (length * (100 - m.eps)) \div 100 - m.aeps
BandHi(m, length) == (length * (100 + m.eps)) \div 100 + m.aeps

Opens(m, edge, tok) ==
    /\ edge.e = tok.t
    /\ tok.value >= BandLo(m, edge.length)
    /\ edge.complete => tok.value <= BandHi(m, edge.length)

\* the successors of work item it over its vertex's edges, in edge order
RECURSIVE FollowEdges(_, _, _, _, _, _)
FollowEdges(m, it, tok, edges, i, out) ==
    IF i > Len(edges) THEN out
    ELSE LET e == edges[i]
             timed == e.e \in {"Flash", "Gap"}
             takes == CASE timed -> ~it.consumed /\ Opens(m, e, tok)
                        [] e.e = "MayBranchCond" -> Eval(e.expr, it.vars)
                        [] OTHER -> TRUE
             dest == IF e.e = "BranchCond" /\ ~Eval(e.expr, it.vars) THEN e.no ELSE e.dest
             arr == RunActions(Vert(m.nfa, dest).actions, 1, [ok |-> TRUE, vars |-> it.vars])
         IN  FollowEdges(m, it, tok, edges, i + 1,
                         IF takes /\ arr.ok
                         THEN Append(out, [v |-> dest, vars |-> arr.vars,
                                           consumed |-> it.consumed \/ timed])
                         ELSE out)

\* a thread that consumed the token stays at a vertex that waits for the next
\* token (or holds a speculative edge); a Done vertex ends the expansion
Rests(g, it) ==
    LET edges == Vert(g, it.v).edges
    IN  \/ HasDone(g, it.v)
        \/ /\ it.consumed
           /\ \/ edges = << >>
              \/ \E i \in 1..Len(edges) : edges[i].e \in {"Flash", "Gap", "MayBranchCond"}

\* the live threads as a queue drained once per token; the graphs of NfaLib
\* have no cycle of untimed edges, so the expansion ends
RECURSIVE Drain(_, _, _, _)
Drain(m, tok, queue, threads) ==
    IF queue = << >> THEN threads
    ELSE LET it == Head(queue)
             more == IF HasDone(m.nfa, it.v) THEN << >>
                     ELSE FollowEdges(m, it, tok, Vert(m.nfa, it.v).edges, 1, << >>)
         IN  Drain(m, tok, Tail(queue) \o more,
                   IF Rests(m.nfa, it)
                   THEN Append(threads, [v |-> it.v, vars |-> it.vars])
                   ELSE threads)

\* step 3: the first occurrence of each (vertex_index, Vartable) is kept
DedupNone(threads) == threads

RECURSIVE DedupFrom(_, _, _)
DedupFrom(threads, i, kept) ==
    IF i > Len(threads) THEN kept
    ELSE DedupFrom(threads, i + 1,
                   IF threads[i] \in Range(kept) THEN kept ELSE Append(kept, threads[i]))

Dedup(threads) == DedupFrom(threads, 1, << >>)

Seed == << [v |-> 0, vars |-> EmptyVars] >>

\* step 2: the successors of every live thread, before deduplication
Expand(m, tok) ==
    Drain(m, tok,
          [i \in 1..Len(m.threads) |->
              [v |-> m.threads[i].v, vars |-> m.threads[i].vars, consumed |-> FALSE]],
          << >>)

\* one token: the new matcher state and the results of the threads that
\* reached Done, in insertion order
Retire(m, new) ==
    LET AtDone(th) == HasDone(m.nfa, th.v)
        Live(th) == ~HasDone(m.nfa, th.v)
        done == SelectSeq(new, AtDone)
        live == SelectSeq(new, Live)
    IN  [m |-> [m EXCEPT !.threads = IF live = << >> THEN Seed ELSE live],
         results |-> [i \in 1..Len(done) |-> DoneResult(m.nfa, done[i])]]

MatcherStep(m, tok) ==
    IF tok.t = "Reset" THEN [m |-> [m EXCEPT !.threads = Seed], results |-> << >>]
    ELSE Retire(m, Dedup(Expand(m, tok)))

\* nfa.matcher(abs_tolerance, rel_tolerance): the initial thread at vertex 0
NewMatcher(g, aeps, eps) == [nfa |-> g, aeps |-> aeps, eps |-> eps, threads |-> Seed]

\* ------------------------------------------------------ state of the model

VARIABLES
    pc,           \* where the decode command is
    irps,         \* decode: the (remote, NFA) pairs built from IRP or LIRCDCONF
    graphviz,     \* decode: the GRAPHVIZ flag
    raw,          \* process: the raw durations being decoded
    nInputs,      \* decode: the FILE and RAWIR inputs handed to process so far
    nfaIdx,       \* process: position in irps
    index,        \* process: the number of durations fed to the current matcher
    matcher,      \* process: the current matcher
    prevMatcher,  \* history: the matcher before the last token
    lastTok,      \* history: the last token fed, << >> when none was
    printed,      \* the lines printed for the current input and NFA
    lastPrinted,  \* history: the lines printed for the last token
    dumpFailed,   \* history: a dot file could not be created or written
    resolution,   \* live: receiver_resolution(), << >> when the device reports none
    matchers,     \* live: one matcher per entry of irps
    rawbuf,       \* live: the batch receive_raw returned
    bufPos,       \* live: the tokens of rawbuf already handled
    nArrived,     \* live: the number of tokens received so far
    delivered,    \* history: the matcher.input calls of the batch, in call order
    liveLines,      \* history: the lines each matcher printed for the last token
    fresh,          \* history: per matcher, a matcher created at the last overflow
                    \* and fed the tokens since, with the lines of its last token
    beforeOverflow, \* history: the threads of each matcher before the last overflow
    command,        \* the command that runs: config, load or auto
    clear,          \* load_keymaps: the clear argument
    scankey,        \* config: the key names of the SCANKEY arguments, in order
    rc_maps,        \* auto: the parsed rc_maps file, << >> when it does not parse
    cfg_timeout,    \* config: the TIMEOUT argument, << >> when not given
    cfg_protocol,   \* history: the PROTOCOL arguments of config
    devTimeout,     \* history: the timeout the lirc device last reported or was set to
    lircdev,        \* rcdev.lircdev is Some
    inputdev,       \* rcdev.inputdev is Some
    supported_protocols, \* rcdev.supported_protocols
    keymaps,        \* load_keymaps: the keymap files, as positions in KeymapFiles
    decode_options, \* load_keymaps: << >> or the aeps and eps options of the command line
    chdev,          \* load_keymaps: the lirc chardev was opened and cleared
    fileIdx,        \* load_keymaps: the keymap files handled so far
    entries,        \* the keymaps or remotes parsed from the current file
    entryIdx,       \* the keymaps or remotes of the current file handled so far
    keyIdx,         \* the keys of the current keymap or remote handled so far
    dfas,           \* load_keymap: the DFAs of the current keymap still to attach
    options,        \* the Options the current decoder is compiled with
    protocols,      \* load_keymaps: the kernel protocols to enable
    calls,          \* history: the calls made on the rc device and the lirc chardev
    lookups,        \* history: the key names looked up with KeyCode::from_str
    exitCode,       \* the exit code of the process, << >> while it runs
    verts,          \* graphviz: the vertices of the graph that is dumped
    states,         \* graphviz: the (vertex, Vartable) annotation
    vert_names,     \* graphviz: the names of the vertices declared so far
    edgeFrom,       \* graphviz: the vertices whose edges are written
    edgeNo,         \* graphviz: the edges of the current vertex that are written
    file,           \* graphviz: the lines written to the dot file
    list,           \* find_devices: the rc devices enumerate_rc_dev() found
    enumerated,     \* find_devices: enumerate_rc_dev() returned Ok
    device,         \* find_devices: the rc device and lirc device arguments
    purpose,        \* find_devices: Receive or Transmit
    probe,          \* find_devices: the devices the capability search has passed
    selected        \* find_devices: the position of the device found, << >> before

\* the state of decode with input on the command line
procOnly == << graphviz, raw, nInputs, nfaIdx, index, matcher, prevMatcher, lastTok,
               printed, lastPrinted, dumpFailed >>

\* the state of the live receive loop of decode
liveVars == << resolution, matchers, rawbuf, bufPos, nArrived, delivered, liveLines,
              fresh, beforeOverflow >>

\* the state of the config, load and auto commands
cfgVars == << command, scankey, rc_maps, cfg_timeout, cfg_protocol, devTimeout, clear, lircdev, inputdev, supported_protocols, keymaps, decode_options, chdev,
              fileIdx, entries, entryIdx, keyIdx, dfas, options, protocols, calls, lookups,
              exitCode >>

\* the state of a graphviz dump
gvVars == << verts, states, vert_names, edgeFrom, edgeNo, file >>

\* the state of find_devices
fdVars == << list, enumerated, device, purpose, probe, selected >>

vars == << pc, irps, procOnly, liveVars, cfgVars, gvVars, fdVars >>

notProc == << liveVars, cfgVars, gvVars, fdVars >>

FdIdle ==
    /\ list = << >>
    /\ enumerated = FALSE
    /\ device = [rc_dev |-> << >>, lirc_dev |-> << >>]
    /\ purpose = "Receive"
    /\ probe = 0
    /\ selected = << >>


GvIdle ==
    /\ verts = << >>
    /\ states = << >>
    /\ vert_names = << >>
    /\ edgeFrom = 0
    /\ edgeNo = 0
    /\ file = << >>

CfgIdle ==
    /\ command = "none"
    /\ scankey = << >>
    /\ rc_maps = << >>
    /\ cfg_timeout = << >>
    /\ cfg_protocol = << >>
    /\ devTimeout = << >>
    /\ clear = FALSE
    /\ lircdev = FALSE
    /\ inputdev = FALSE
    /\ supported_protocols = << >>
    /\ keymaps = << >>
    /\ decode_options = << >>
    /\ chdev = FALSE
    /\ fileIdx = 0
    /\ entries = << >>
    /\ entryIdx = 0
    /\ keyIdx = 0
    /\ dfas = 0
    /\ options = << >>
    /\ protocols = << >>
    /\ calls = << >>
    /\ lookups = << >>
    /\ exitCode = << >>

LiveIdle ==
    /\ resolution = << >>
    /\ matchers = << >>
    /\ rawbuf = << >>
    /\ bufPos = 0
    /\ nArrived = 0
    /\ delivered = << >>
    /\ liveLines = << >>
    /\ fresh = << >>
    /\ beforeOverflow = << >>

ProcIdle ==
    /\ graphviz = FALSE
    /\ raw = << >>
    /\ nInputs = 0
    /\ nfaIdx = 0
    /\ index = 0
    /\ matcher = [nfa |-> 1, aeps |-> 0, eps |-> 0, threads |-> Seed]
    /\ prevMatcher = [nfa |-> 1, aeps |-> 0, eps |-> 0, threads |-> Seed]
    /\ lastTok = << >>
    /\ printed = << >>
    /\ lastPrinted = << >>
    /\ dumpFailed = FALSE

\* ------------------------------------------------------- graphviz.rs

\* graphviz(): File::create(..).expect(..) and writeln!(..).unwrap() panic
\* when the file cannot be created or written
graphviz_write(createOk, writeOk) == IF createOk /\ writeOk THEN "written" ELSE "panic"

\* ---------------------------------------------------------- decode.rs

Durations == {500, 100000}
Raws == SeqsUpTo(Durations, MaxRawLen) \ {<< >>}

\* --irp gives one NFA without a remote, --lircdconf one per remote
IrpsChoices ==
    {<< [remote |-> FALSE, nfa |-> g] >> : g \in 1..Len(NfaLib)}
    \cup {[i \in 1..Len(s) |-> [remote |-> TRUE, nfa |-> s[i]]] :
              s \in SeqsUpTo(RemoteNfas, MaxIrps) \ {<< >>}}

\* the codes of a lircd.conf remote
RemoteCodes == {1}

\* matcher.input(ir) as decode.rs uses it: an Option of one result
input(m, ir) ==
    LET r == MatcherStep(m, ir)
    IN  [m |-> r.m, var |-> IF r.results = << >> THEN << >> ELSE << r.results[1] >>]

\* the line printed for a result
Line(entry, var) ==
    IF entry.remote
    THEN [kind |-> IF var["CODE"] \in RemoteCodes THEN "code" ELSE "unmapped", var |-> var]
    ELSE [kind |-> "decoded", var |-> var]

Lines(entry, opt) == IF opt = << >> THEN << >> ELSE << Line(entry, opt[1]) >>

\* process(): even positions are flashes, odd positions gaps
InfraredOf(i, value) == IF i % 2 = 1 THEN IrGap(value) ELSE IrFlash(value)

ProcInit ==
    /\ pc = "build"
    /\ irps \in IrpsChoices
    /\ graphviz \in BOOLEAN
    /\ raw = << >>
    /\ nInputs = 0
    /\ nfaIdx = 0
    /\ index = 0
    /\ matcher = NewMatcher(1, 0, 0)
    /\ prevMatcher = NewMatcher(1, 0, 0)
    /\ lastTok = << >>
    /\ printed = << >>
    /\ lastPrinted = << >>
    /\ dumpFailed = FALSE
    /\ LiveIdle
    /\ CfgIdle
    /\ GvIdle
    /\ FdIdle

\* decode(): the NFAs are built and, with GRAPHVIZ, dumped
decode_build ==
    /\ pc = "build"
    /\ IF graphviz
       THEN \E createOk, writeOk \in BOOLEAN :
                /\ pc' = IF graphviz_write(createOk, writeOk) = "panic" THEN "panic" ELSE "input"
                /\ dumpFailed' = ~(createOk /\ writeOk)
       ELSE pc' = "input" /\ UNCHANGED dumpFailed
    /\ UNCHANGED << irps, graphviz, raw, nInputs, nfaIdx, index, matcher, prevMatcher,
                    lastTok, printed, lastPrinted >>
    /\ UNCHANGED notProc

\* decode(): the next FILE or RAWIR argument is parsed and handed to process
decode_input ==
    /\ pc = "input"
    /\ \/ /\ nInputs < MaxInputs
          /\ \E r \in Raws :
                /\ raw' = r
                /\ nInputs' = nInputs + 1
                /\ nfaIdx' = 0
                /\ pc' = "nfa"
          /\ UNCHANGED << index >>
       \/ /\ nInputs < MaxInputs
          /\ pc' = "exit"
          /\ UNCHANGED << raw, nInputs, nfaIdx, index >>
       \/ /\ nInputs > 0
          /\ pc' = "done"
          /\ UNCHANGED << raw, nInputs, nfaIdx, index >>
    /\ UNCHANGED << irps, graphviz, matcher, prevMatcher, lastTok, printed, lastPrinted,
                    dumpFailed >>
    /\ UNCHANGED notProc

\* process() with the matcher of the NFA and input before kept for the next
process_nfa_shared ==
    /\ pc = "nfa"
    /\ IF nfaIdx < Len(irps)
       THEN /\ nfaIdx' = nfaIdx + 1
            /\ matcher' = [matcher EXCEPT !.nfa = irps[nfaIdx + 1].nfa, !.aeps = 100, !.eps = 100]
            /\ index' = 0
            /\ printed' = << >>
            /\ lastTok' = << >>
            /\ lastPrinted' = << >>
            /\ pc' = "token"
       ELSE /\ pc' = "input"
            /\ UNCHANGED << nfaIdx, matcher, index, printed, lastTok, lastPrinted >>
    /\ UNCHANGED << irps, graphviz, raw, nInputs, prevMatcher, dumpFailed >>
    /\ UNCHANGED notProc

\* process(): the loop over irps creates a matcher for each NFA
process_nfa ==
    /\ pc = "nfa"
    /\ IF nfaIdx < Len(irps)
       THEN /\ nfaIdx' = nfaIdx + 1
            /\ matcher' = NewMatcher(irps[nfaIdx + 1].nfa, 100, 100)
            /\ index' = 0
            /\ printed' = << >>
            /\ lastTok' = << >>
            /\ lastPrinted' = << >>
            /\ pc' = "token"
       ELSE /\ pc' = "input"
            /\ UNCHANGED << nfaIdx, matcher, index, printed, lastTok, lastPrinted >>
    /\ UNCHANGED << irps, graphviz, raw, nInputs, prevMatcher, dumpFailed >>
    /\ UNCHANGED notProc

\* process(): one duration is fed, its result printed and, with GRAPHVIZ,
\* the matcher state dumped
process_token ==
    /\ pc = "token"
    /\ IF index < Len(raw)
       THEN LET ir == InfraredOf(index, raw[index + 1])
                r == input(matcher, ir)
                out == Lines(irps[nfaIdx], r.var)
            IN  /\ matcher' = r.m
                /\ prevMatcher' = matcher
                /\ lastTok' = << ir >>
                /\ printed' = printed \o out
                /\ lastPrinted' = out
                /\ index' = index + 1
                /\ IF graphviz
                   THEN \E createOk, writeOk \in BOOLEAN :
                            /\ pc' = IF graphviz_write(createOk, writeOk) = "panic"
                                     THEN "panic" ELSE "token"
                            /\ dumpFailed' = ~(createOk /\ writeOk)
                   ELSE UNCHANGED << pc, dumpFailed >>
       ELSE /\ pc' = "nfa"
            /\ UNCHANGED << matcher, prevMatcher, lastTok, printed, lastPrinted, index,
                            dumpFailed >>
    /\ UNCHANGED << irps, graphviz, raw, nInputs, nfaIdx >>
    /\ UNCHANGED notProc

ProcNext == decode_build \/ decode_input \/ process_nfa \/ process_token

SpecProcess == ProcInit /\ [][ProcNext]_vars

\* ------------------------------------------------ claims on process()

\* the default max_gap of the commands that compile a decoder
DefaultMaxGap == 100000

\* a fresh matcher of NFA entry fed the first n durations of r: the matcher
\* and the lines printed
RECURSIVE FreshRunFrom(_, _, _, _, _)
FreshRunFrom(entry, r, n, k, st) ==
    IF k >= n THEN st
    ELSE LET step == input(st.m, IF k % 2 = 0 THEN IrFlash(r[k + 1]) ELSE IrGap(r[k + 1]))
         IN  FreshRunFrom(entry, r, n, k + 1,
                          [m |-> step.m, printed |-> st.printed \o Lines(entry, step.var)])

FreshRun(entry, r, n) ==
    FreshRunFrom(entry, r, n, 0, [m |-> NewMatcher(entry.nfa, 100, 100), printed |-> << >>])

\* C8: while process() decodes an input with an NFA, the matcher and the
\* lines printed are those of a matcher created fresh for this input and this
\* NFA and fed the durations so far in order, even positions as Flash and odd
\* positions as Gap: nothing of an earlier input or NFA is left in it
C8_FreshMatcherPerInput ==
    pc = "token" =>
        /\ [m |-> matcher, printed |-> printed] = FreshRun(irps[nfaIdx], raw, index)
        /\ index > 0 =>
              lastTok = << [t |-> IF (index - 1) % 2 = 0 THEN "Flash" ELSE "Gap",
                            value |-> raw[index]] >>

\* the second NFA has decoded the second input to its end: it printed a line
\* and stands in the middle of a frame, after an earlier input and an earlier
\* NFA went through process()
C8_Witness ==
    /\ pc = "token"
    /\ nInputs = 2
    /\ nfaIdx = 2
    /\ index = Len(raw)
    /\ printed # << >>
    /\ matcher.threads # Seed

NoDuplicates(s) == \A i, j \in 1..Len(s) : i # j => s[i] # s[j]

\* the Vartables a thread of NFA g can hold
ReachableVartables(g) ==
    CASE g = 1 -> {EmptyVars, [n \in {"CODE"} |-> 1]}
      [] g = 2 -> {EmptyVars, [n \in {"CODE"} |-> 1], [n \in {"CODE"} |-> 2]}
      [] g = 3 -> {EmptyVars} \cup {[n \in {"N"} |-> k] : k \in 0..2}

\* C9: after each token the live threads are pairwise distinct as
\* (vertex_index, Vartable) pairs, and there are at most as many as vertices
\* times reachable Vartables
C9_ThreadsDistinct ==
    /\ NoDuplicates(matcher.threads)
    /\ \A i \in 1..Len(matcher.threads) :
           matcher.threads[i].vars \in ReachableVartables(matcher.nfa)
    /\ Len(matcher.threads)
           <= Len(NfaLib[matcher.nfa]) * Cardinality(ReachableVartables(matcher.nfa))

\* the last token led two threads to the same vertex with the same Vartable,
\* in the NFA with the repeat back edge, and one of them was kept
C9_Witness ==
    /\ pc = "token"
    /\ lastTok # << >>
    /\ matcher.nfa = 3
    /\ ~NoDuplicates(Expand(prevMatcher, lastTok[1]))
    /\ matcher.threads # Seed

\* C4 (as claimed): in process(), a Gap of max_gap or more that arrives in the
\* middle of a frame leaves the matcher in the start state
C4_GapAtMaxGapResets ==
    (/\ pc = "token"
     /\ lastTok # << >>
     /\ lastTok[1].t = "Gap"
     /\ lastTok[1].value >= DefaultMaxGap
     /\ prevMatcher.threads # Seed)
        => matcher.threads = Seed

\* C5 (as claimed): every result of the threads that reach Done on a token
\* is printed, in insertion order
C5_AllDoneEmitted ==
    (pc = "token" /\ lastTok # << >>) =>
        LET results == MatcherStep(prevMatcher, lastTok[1]).results
        IN  lastPrinted = [i \in 1..Len(results) |-> Line(irps[nfaIdx], results[i])]

\* C6 (as claimed): the matchers of the decode command have eps = 3 and
\* aeps = 100
C6_DecodeDefaultTolerances ==
    pc = "token" => matcher.eps = 3 /\ matcher.aeps = 100

\* C10 (as claimed): a dot file that cannot be created or written does not
\* end the command
C10_DumpFailureNotFatal ==
    dumpFailed => pc # "panic"

\* ------------------------------------------- decode.rs, live receive loop

\* what the receiver returns: pulse, space, timeout, overflow, and the
\* carrier frequency report, which is none of these
LiveTokens ==
    {[kind |-> "pulse", value |-> 500], [kind |-> "space", value |-> 500],
     [kind |-> "timeout", value |-> 100000], [kind |-> "overflow", value |-> 0],
     [kind |-> "frequency", value |-> 38000]}

Batches == SeqsUpTo(LiveTokens, MaxBatch) \ {<< >>}

\* overflow is skipped instead of resetting the matchers
raw_to_ir_no_reset(tok) ==
    IF tok.kind = "pulse" THEN << IrFlash(tok.value) >>
    ELSE IF tok.kind = "space" \/ tok.kind = "timeout" THEN << IrGap(tok.value) >>
    ELSE << >>

\* timeout is skipped instead of being a gap
raw_to_ir_no_timeout(tok) ==
    IF tok.kind = "pulse" THEN << IrFlash(tok.value) >>
    ELSE IF tok.kind = "space" THEN << IrGap(tok.value) >>
    ELSE IF tok.kind = "overflow" THEN << IrReset >>
    ELSE << >>

\* the InfraredData of a received token, << >> for `continue`
raw_to_ir(tok) ==
    IF tok.kind = "pulse" THEN << IrFlash(tok.value) >>
    ELSE IF tok.kind = "space" \/ tok.kind = "timeout" THEN << IrGap(tok.value) >>
    ELSE IF tok.kind = "overflow" THEN << IrReset >>
    ELSE << >>

LiveInit ==
    /\ pc = "open"
    /\ irps \in IrpsChoices
    /\ ProcIdle
    /\ CfgIdle
    /\ GvIdle
    /\ FdIdle
    /\ resolution \in {<< >>, << 50 >>}
    /\ matchers = << >>
    /\ rawbuf = << >>
    /\ bufPos = 0
    /\ nArrived = 0
    /\ delivered = << >>
    /\ liveLines = << >>
    /\ fresh = << >>
    /\ beforeOverflow = << >>

\* the delivery the claim gives a token
ClaimedIr(tok) ==
    CASE tok.kind = "pulse" -> << [t |-> "Flash", value |-> tok.value] >>
      [] tok.kind \in {"space", "timeout"} -> << [t |-> "Gap", value |-> tok.value] >>
      [] tok.kind = "overflow" -> << [t |-> "Reset", value |-> 0] >>
      [] OTHER -> << >>

\* the matcher decode() creates for entry i of irps
LiveMatcher(i) ==
    NewMatcher(irps[i].nfa, IF resolution = << >> THEN 100 ELSE resolution[1], 100)

\* history: the matcher created fresh at the last overflow takes token tok
FreshStep(i, tok) ==
    IF tok.kind = "overflow" THEN [m |-> LiveMatcher(i), lines |-> << >>]
    ELSE IF ClaimedIr(tok) = << >> THEN fresh[i]
    ELSE LET step == input(fresh[i].m, ClaimedIr(tok)[1])
         IN  [m |-> step.m, lines |-> Lines(irps[i], step.var)]

\* decode(): a raw receiver gets one matcher per NFA
live_open ==
    /\ pc = "open"
    /\ \E canReceiveRaw \in BOOLEAN :
          IF canReceiveRaw
          THEN /\ matchers' = [i \in 1..Len(irps) |-> LiveMatcher(i)]
               /\ liveLines' = [i \in 1..Len(irps) |-> << >>]
               /\ fresh' = [i \in 1..Len(irps) |-> [m |-> LiveMatcher(i), lines |-> << >>]]
               /\ pc' = "receive"
          ELSE /\ pc' = "exit"
               /\ UNCHANGED << matchers, liveLines, fresh >>
    /\ UNCHANGED << irps, procOnly, cfgVars, gvVars, fdVars, resolution, rawbuf, bufPos, nArrived, delivered,
                    beforeOverflow >>

\* decode(): receive_raw fills rawbuf with the next batch, or fails
live_receive ==
    /\ pc = "receive"
    /\ \/ \E batch \in Batches :
             /\ nArrived + Len(batch) <= MaxLiveTokens
             /\ rawbuf' = batch
             /\ bufPos' = 0
             /\ nArrived' = nArrived + Len(batch)
             /\ delivered' = << >>
             /\ pc' = "tokens"
       \/ /\ pc' = "exit"
          /\ UNCHANGED << rawbuf, bufPos, nArrived, delivered >>
    /\ UNCHANGED << irps, procOnly, cfgVars, gvVars, fdVars, resolution, matchers, liveLines, fresh, beforeOverflow >>

\* decode(): the next token of rawbuf is fed to every matcher in turn and the
\* results are printed
live_token ==
    /\ pc = "tokens"
    /\ IF bufPos < Len(rawbuf)
       THEN LET tok == rawbuf[bufPos + 1]
                ir == raw_to_ir(tok)
                steps == [i \in 1..Len(matchers) |-> input(matchers[i], ir[1])]
            IN  /\ bufPos' = bufPos + 1
                /\ IF ir = << >>
                   THEN UNCHANGED << matchers, delivered, liveLines >>
                   ELSE /\ matchers' = [i \in 1..Len(matchers) |-> steps[i].m]
                        /\ delivered' = delivered \o
                               [i \in 1..Len(matchers) |->
                                   [m |-> i, ir |-> ir[1], k |-> bufPos + 1]]
                        /\ liveLines' = [i \in 1..Len(matchers) |->
                                            Lines(irps[i], steps[i].var)]
                /\ fresh' = [i \in 1..Len(matchers) |-> FreshStep(i, tok)]
                /\ beforeOverflow' =
                       IF tok.kind = "overflow"
                       THEN [i \in 1..Len(matchers) |-> matchers[i].threads]
                       ELSE beforeOverflow
                /\ UNCHANGED pc
       ELSE /\ pc' = "receive"
            /\ UNCHANGED << bufPos, matchers, delivered, liveLines, fresh, beforeOverflow >>
    /\ UNCHANGED << irps, procOnly, cfgVars, gvVars, fdVars, resolution, rawbuf, nArrived >>

LiveNext == live_open \/ live_receive \/ live_token

SpecLive == LiveInit /\ [][LiveNext]_vars

\* ------------------------------------------ claims on the live receive loop

\* the calls of the first n tokens of the batch: token k to matchers 1, 2, ..
\* in turn
RECURSIVE ClaimedDeliveries(_)
ClaimedDeliveries(n) ==
    IF n = 0 THEN << >>
    ELSE ClaimedDeliveries(n - 1) \o
         (IF ClaimedIr(rawbuf[n]) = << >> THEN << >>
          ELSE [i \in 1..Len(matchers) |-> [m |-> i, ir |-> ClaimedIr(rawbuf[n])[1], k |-> n]])

\* C2: the matcher.input calls of a batch are exactly those of its handled
\* tokens in arrival order, each token to every matcher once and to all
\* matchers before the next token: a pulse as Flash(value), a space or a
\* timeout as Gap(value), an overflow as Reset, any other token to no
\* matcher; and the next batch is received only when the whole batch is handled
C2_DeliveredInArrivalOrder ==
    /\ pc = "tokens" => delivered = ClaimedDeliveries(bufPos)
    /\ pc = "receive" => delivered = ClaimedDeliveries(Len(rawbuf))

\* two matchers were fed a second batch that holds a token of no kind and a
\* timeout
C2_Witness ==
    /\ pc = "receive"
    /\ Len(matchers) = 2
    /\ nArrived > Len(rawbuf)
    /\ Len(rawbuf) = 2
    /\ rawbuf[1].kind = "frequency"
    /\ rawbuf[2].kind = "timeout"
    /\ Len(delivered) = 2

KEY_ == << "K", "E", "Y", "_" >>

\* char::to_uppercase on the characters the key names are written with
UpperChar(c) ==
    CASE c = "k" -> "K"
      [] c = "e" -> "E"
      [] c = "y" -> "Y"
      [] c = "o" -> "O"
      [] c = "u" -> "U"
      [] c = "p" -> "P"
      [] OTHER -> c

to_uppercase(name) == [i \in 1..Len(name) |-> UpperChar(name[i])]

starts_with(name, prefix) ==
    /\ Len(name) >= Len(prefix)
    /\ SubSeq(name, 1, Len(prefix)) = prefix

\* the names the keycode registry knows: KEY_OK and KEY_UP
KeyCodes == { KEY_ \o << "O", "K" >>, KEY_ \o << "U", "P" >> }

\* KeyCode::from_str: the key of a name, << >> when the registry has none
from_str(name) == IF name \in KeyCodes THEN << name >> ELSE << >>

\* load_lircd(): the name looked up for a code of a remote
lircd_key_name(name) ==
    LET upper == to_uppercase(name)
    IN  IF ~starts_with(upper, KEY_) THEN KEY_ \o upper ELSE upper

\* load_keymap(): the name looked up for a scancode of a keymap is the name
\* as the keymap file has it
keymap_key_name(keycode) == keycode

\* the keymap files of the model: a keymap of a kernel protocol, a keymap
\* with an IRP of two variants, and a lircd.conf with one remote
KeymapFiles ==
    << [lircd |-> FALSE,
        entries |-> << [protocol |-> "rc5", variants |-> 1,
                        keys |-> << KEY_ \o << "O", "K" >>,
                                    << "k", "e", "y", "_", "u", "p" >> >>] >>],
       [lircd |-> FALSE,
        entries |-> << [protocol |-> "irp", variants |-> 2,
                        keys |-> << << "o", "k" >>, KEY_ \o << "U", "P" >> >>] >>],
       [lircd |-> TRUE,
        entries |-> << [protocol |-> "lircd", variants |-> 1,
                        keys |-> << << "K", "e", "y", "_", "O", "k" >>,
                                    << "u", "p" >>,
                                    << "k", "e", "y", "o", "k" >> >>] >>] >>

\* LinuxProtocol::find_decoder: the kernel decoders of a protocol name
find_decoder(protocol) == IF protocol = "rc5" THEN << << "rc-5" >> >> ELSE << >>

\* the position of decoder in rcdev.supported_protocols, << >> when absent
position(decoder) ==
    LET found == {i \in 1..Len(supported_protocols) : supported_protocols[i] = decoder}
    IN  IF found = {} THEN << >> ELSE << CHOOSE i \in found : \A j \in found : i <= j >>

\* the timeouts chdev.get_timeout() reports, << >> for an error
Timeouts == {<< >>, << 125000 >>, << 500000000 >>}

\* timeout * 9 in u32: the product modulo 2^32 in two halves of 16 bits, and
\* whether it left the u32 range
mul9_u32(t) ==
    LET lo == (t % 65536) * 9
        hi == (t \div 65536) * 9 + lo \div 65536
    IN  [hi |-> hi % 65536, lo |-> lo % 65536, overflow |-> hi >= 65536]

\* a u32 in two halves divided by 10
div10_u32(h) == (h.hi \div 10) * 65536 + ((h.hi % 10) * 65536 + h.lo) \div 10

\* (timeout * 9) / 10 overflows
overflows(timeout) == timeout # << >> /\ mul9_u32(timeout[1]).overflow

\* 90% of the timeout the device reports, 100000 without one; the arithmetic
\* is u32 and wraps in a build without overflow checks
max_gap_of(timeout) ==
    IF timeout = << >> THEN 100000 ELSE div10_u32(mul9_u32(timeout[1]))

\* Options::default() of the irp crate
DefaultOptions == [aeps |-> 100, eps |-> 3, max_gap |-> 100000]

\* Option::unwrap_or
unwrap_or(opt, default) == IF opt = << >> THEN default ELSE opt[1]

\* load_keymap(): the Options a keymap is compiled with
keymap_options(timeout) ==
    IF decode_options = << >>
    THEN [DefaultOptions EXCEPT !.max_gap = max_gap_of(timeout)]
    ELSE [aeps |-> unwrap_or(decode_options[1].aeps, 100),
          eps |-> unwrap_or(decode_options[1].eps, 3),
          max_gap |-> max_gap_of(timeout)]

\* remote.default_options(aeps, eps, max_gap) of the lircd_conf crate
default_options(aeps, eps, max_gap) ==
    [aeps |-> unwrap_or(aeps, 100), eps |-> unwrap_or(eps, 3), max_gap |-> max_gap]

\* load_lircd(): the Options a remote is compiled with
lircd_options(timeout) ==
    IF decode_options = << >>
    THEN default_options(<< >>, << >>, max_gap_of(timeout))
    ELSE default_options(decode_options[1].aeps, decode_options[1].eps, max_gap_of(timeout))

\* a call on the rc device or the lirc chardev
Call(op, ok, arg) == [op |-> op, ok |-> ok, arg |-> arg]

\* std::process::exit(code)
Exit(code) ==
    /\ pc' = "exit"
    /\ exitCode' = << code >>

\* the command lines: load has decode options, auto has none
DecodeOptionsChoices ==
    {<< [aeps |-> a, eps |-> e] >> : a \in {<< >>, << 50 >>}, e \in {<< >>, << 10 >>}}

\* the KEYMAP arguments of load
KeymapChoices == SeqsUpTo(1..Len(KeymapFiles), MaxKeymaps)

\* the key names of the SCANKEY arguments
ScankeyChoices ==
    SeqsUpTo({KEY_ \o << "O", "K" >>, << "u", "p" >>}, MaxScankeys)

\* the entries of an rc_maps file: a keymap file and whether the entry
\* matches the device
RcMapsChoices ==
    {<< >>} \cup
    {<< m >> : m \in SeqsUpTo([file : 1..Len(KeymapFiles), matches : BOOLEAN], MaxKeymaps)}

\* one of the commands config, load and auto starts with its arguments
CfgInit ==
    /\ command \in {"config", "load", "auto"}
    /\ pc = command
    /\ irps = << >>
    /\ ProcIdle
    /\ LiveIdle
    /\ GvIdle
    /\ FdIdle
    /\ clear = FALSE
    /\ lircdev \in BOOLEAN
    /\ inputdev \in (IF command = "auto" THEN BOOLEAN ELSE {TRUE})
    /\ supported_protocols \in {<< "nec" >>, << "nec", "rc-5" >>}
    /\ keymaps \in (IF command = "load" THEN KeymapChoices ELSE {<< >>})
    /\ scankey \in (IF command = "config" THEN ScankeyChoices ELSE {<< >>})
    /\ rc_maps \in (IF command = "auto" THEN RcMapsChoices ELSE {<< >>})
    /\ decode_options \in (CASE command = "auto" -> {<< >>}
                             [] command = "load" -> DecodeOptionsChoices
                             [] OTHER -> {<< [aeps |-> << >>, eps |-> << >>] >>,
                                          << [aeps |-> << 50 >>, eps |-> << 10 >>] >>})
    /\ cfg_timeout = << >>
    /\ cfg_protocol = << >>
    /\ devTimeout = << >>
    /\ chdev = FALSE
    /\ fileIdx = 0
    /\ entries = << >>
    /\ entryIdx = 0
    /\ keyIdx = 0
    /\ dfas = 0
    /\ options = << >>
    /\ protocols = << >>
    /\ calls = << >>
    /\ lookups = << >>
    /\ exitCode = << >>

\* the variables the steps of load_keymaps leave alone
cfgInputs == << irps, procOnly, liveVars, gvVars, fdVars, command, scankey, rc_maps, lircdev,
                inputdev, supported_protocols, decode_options >>

\* load(): the auto repeat of the input device is set when DELAY or PERIOD is
\* given, then the keymaps are loaded with clear = true
load ==
    /\ pc = "load"
    /\ \E repeat \in {"unset", "open_failed", "unsupported", "update_failed", "updated"} :
          /\ UNCHANGED calls
          /\ CASE repeat \in {"unset", "updated"} ->
                      /\ pc' = "load_keymaps"
                      /\ clear' = TRUE
                      /\ UNCHANGED exitCode
               [] repeat = "unsupported" ->
                      /\ pc' = "panic"
                      /\ UNCHANGED << clear, exitCode >>
               [] OTHER ->
                      /\ Exit(1)
                      /\ UNCHANGED clear
    /\ UNCHANGED << cfgInputs, keymaps, cfg_timeout, cfg_protocol, devTimeout, chdev, fileIdx, entries, entryIdx, keyIdx, dfas, options,
                    protocols, lookups >>

\* the files of the entries of an rc_maps file that match the device
matching(maps) ==
    LET found == SelectSeq(maps, LAMBDA map : map.matches)
    IN  [k \in 1..Len(found) |-> found[k].file]

\* auto() loading every keymap of the rc_maps file
auto_every_keymap ==
    /\ pc = "auto"
    /\ IF ~inputdev \/ rc_maps = << >>
       THEN /\ Exit(1)
            /\ UNCHANGED << clear, keymaps >>
       ELSE IF rc_maps[1] = << >>
       THEN /\ Exit(2)
            /\ UNCHANGED << clear, keymaps >>
       ELSE /\ pc' = "load_keymaps"
            /\ clear' = TRUE
            /\ keymaps' = [k \in 1..Len(rc_maps[1]) |-> rc_maps[1][k].file]
            /\ UNCHANGED exitCode
    /\ UNCHANGED << cfgInputs, cfg_timeout, cfg_protocol, devTimeout, chdev, fileIdx, entries,
                    entryIdx, keyIdx, dfas, options, protocols, calls, lookups >>

\* auto(): the keymaps of the rc_maps file that match the device are loaded
\* with clear = true and without decode options
auto ==
    /\ pc = "auto"
    /\ IF ~inputdev
       THEN /\ Exit(1)
            /\ UNCHANGED << clear, keymaps >>
       ELSE IF rc_maps = << >>
       THEN /\ Exit(1)
            /\ UNCHANGED << clear, keymaps >>
       ELSE IF matching(rc_maps[1]) = << >>
       THEN /\ Exit(2)
            /\ UNCHANGED << clear, keymaps >>
       ELSE /\ pc' = "load_keymaps"
            /\ clear' = TRUE
            /\ keymaps' = matching(rc_maps[1])
            /\ UNCHANGED exitCode
    /\ UNCHANGED << cfgInputs, cfg_timeout, cfg_protocol, devTimeout, chdev, fileIdx, entries,
                    entryIdx, keyIdx, dfas, options, protocols, calls, lookups >>

\* load_keymaps() with a failed clear taken as a warning
load_keymaps_keep_going ==
    /\ pc = "load_keymaps"
    /\ IF clear \/ keymaps # << >>
       THEN \E scanOk, openOk, bpfOk \in BOOLEAN :
               /\ calls' = calls \o << Call("clear_scancodes", scanOk, << >>) >>
                           \o (IF lircdev /\ openOk
                               THEN << Call("clear_bpf", bpfOk, << >>) >> ELSE << >>)
               /\ chdev' = (lircdev /\ openOk)
       ELSE /\ chdev' = FALSE
            /\ UNCHANGED calls
    /\ pc' = "keymap_loop"
    /\ UNCHANGED << cfgInputs, keymaps, cfg_timeout, cfg_protocol, devTimeout, clear, fileIdx, entries, entryIdx, keyIdx, dfas, options,
                    protocols, lookups, exitCode >>

\* load_keymaps(): the scancodes are cleared, the lirc chardev is opened and
\* its BPF programs are cleared; any failure ends the process
load_keymaps ==
    /\ pc = "load_keymaps"
    /\ IF clear \/ keymaps # << >>
       THEN \E scanOk, openOk, bpfOk \in BOOLEAN :
               LET opened == scanOk /\ lircdev /\ openOk
                   ok == scanOk /\ (lircdev => openOk /\ bpfOk)
               IN  /\ calls' = calls \o << Call("clear_scancodes", scanOk, << >>) >>
                               \o (IF opened
                                   THEN << Call("clear_bpf", bpfOk, << >>) >> ELSE << >>)
                   /\ chdev' = (ok /\ lircdev)
                   /\ IF ok
                      THEN /\ pc' = "keymap_loop"
                           /\ UNCHANGED exitCode
                      ELSE Exit(1)
       ELSE /\ chdev' = FALSE
            /\ pc' = "keymap_loop"
            /\ UNCHANGED << calls, exitCode >>
    /\ UNCHANGED << cfgInputs, keymaps, cfg_timeout, cfg_protocol, devTimeout, clear, fileIdx, entries, entryIdx, keyIdx, dfas, options,
                    protocols, lookups >>

\* load_keymaps(): the next keymap file goes to load_lircd or load_keymap by
\* its name; after the last one the kernel protocols are enabled
load_keymaps_next ==
    /\ pc = "keymap_loop"
    /\ IF fileIdx < Len(keymaps)
       THEN /\ fileIdx' = fileIdx + 1
            /\ pc' = IF KeymapFiles[keymaps[fileIdx + 1]].lircd
                     THEN "load_lircd_parse" ELSE "load_keymap_parse"
            /\ UNCHANGED << calls, exitCode >>
       ELSE \E ok \in BOOLEAN :
               /\ calls' = calls \o << Call("set_enabled_protocols", ok, protocols) >>
               /\ IF ok
                  THEN /\ pc' = "done"
                       /\ exitCode' = << 0 >>
                  ELSE Exit(1)
               /\ UNCHANGED fileIdx
    /\ UNCHANGED << cfgInputs, keymaps, cfg_timeout, cfg_protocol, devTimeout, clear, chdev, entries, entryIdx, keyIdx, dfas, options,
                    protocols, lookups >>

\* load_keymap(): the keymap file is parsed
load_keymap_parse ==
    /\ pc = "load_keymap_parse"
    /\ \E parseOk \in BOOLEAN :
          IF parseOk
          THEN /\ entries' = KeymapFiles[keymaps[fileIdx]].entries
               /\ entryIdx' = 0
               /\ keyIdx' = 0
               /\ pc' = "load_keymap"
               /\ UNCHANGED exitCode
          ELSE /\ Exit(1)
               /\ UNCHANGED << entries, entryIdx, keyIdx >>
    /\ UNCHANGED << cfgInputs, keymaps, cfg_timeout, cfg_protocol, devTimeout, clear, chdev, fileIdx, dfas, options, protocols, calls,
                    lookups >>

\* load_lircd(): the lircd.conf file is parsed
load_lircd_parse ==
    /\ pc = "load_lircd_parse"
    /\ \E parseOk \in BOOLEAN :
          IF parseOk
          THEN /\ entries' = KeymapFiles[keymaps[fileIdx]].entries
               /\ entryIdx' = 0
               /\ keyIdx' = 0
               /\ pc' = "load_lircd"
               /\ UNCHANGED exitCode
          ELSE /\ Exit(2)
               /\ UNCHANGED << entries, entryIdx, keyIdx >>
    /\ UNCHANGED << cfgInputs, keymaps, cfg_timeout, cfg_protocol, devTimeout, clear, chdev, fileIdx, dfas, options, protocols, calls,
                    lookups >>

\* the outcomes of compiling a DFA to BPF and attaching it to the chardev
AttachOutcomes ==
    {"compile_failed", "not_raw", "no_bpf", "query_failed", "attach_failed", "attached"}

\* the checks of a chardev before a decoder is attached: the calls made and
\* whether the chardev passed
check_calls(outcome) ==
    CASE outcome = "not_raw" -> << Call("can_receive_raw", FALSE, << >>) >>
      [] outcome = "no_bpf" -> << Call("can_receive_raw", TRUE, << >>),
                                  Call("query_bpf", TRUE, << "none" >>) >>
      [] outcome = "query_failed" -> << Call("can_receive_raw", TRUE, << >>),
                                        Call("query_bpf", FALSE, << >>) >>
      [] OTHER -> << Call("can_receive_raw", TRUE, << >>),
                     Call("query_bpf", TRUE, << "some" >>) >>

\* load_keymap() and load_lircd() attaching to a chardev that is no raw
\* receiver
attach_step_unchecked(outcome, opts) ==
    IF outcome = "compile_failed" THEN [calls |-> << >>, ok |-> FALSE]
    ELSE IF outcome \in {"no_bpf", "query_failed"}
    THEN [calls |-> check_calls(outcome), ok |-> FALSE]
    ELSE [calls |-> check_calls(outcome)
                    \o << Call("attach_bpf", outcome # "attach_failed", opts) >>,
          ok |-> outcome # "attach_failed"]

\* load_keymap() and load_lircd(): a decoder is compiled to BPF, the chardev
\* is checked and the decoder attached: the calls made and whether all went
\* well
attach_step(outcome, opts) ==
    IF outcome = "compile_failed" THEN [calls |-> << >>, ok |-> FALSE]
    ELSE IF outcome \in {"not_raw", "no_bpf", "query_failed"}
    THEN [calls |-> check_calls(outcome), ok |-> FALSE]
    ELSE [calls |-> check_calls(outcome)
                    \o << Call("attach_bpf", outcome = "attached", opts) >>,
          ok |-> outcome = "attached"]

\* load_keymap(): the next scancode of the current keymap is registered; a
\* name that is no keycode is skipped
load_keymap_scancode ==
    /\ pc = "load_keymap"
    /\ IF entryIdx >= Len(entries)
       THEN /\ pc' = "keymap_loop"
            /\ UNCHANGED << keyIdx, calls, lookups, exitCode >>
       ELSE IF keyIdx >= Len(entries[entryIdx + 1].keys)
       THEN /\ pc' = "load_keymap_decoder"
            /\ UNCHANGED << keyIdx, calls, lookups, exitCode >>
       ELSE LET keycode == entries[entryIdx + 1].keys[keyIdx + 1]
                name == keymap_key_name(keycode)
                key == from_str(name)
            IN  /\ keyIdx' = keyIdx + 1
                /\ lookups' = lookups \o
                       << [format |-> "keymap", name |-> keycode, looked |-> name] >>
                /\ IF key = << >>
                   THEN UNCHANGED << pc, calls, exitCode >>
                   ELSE \E ok \in BOOLEAN :
                           /\ calls' = calls \o << Call("update_scancode", ok, key[1]) >>
                           /\ IF ok THEN UNCHANGED << pc, exitCode >> ELSE Exit(1)
    /\ UNCHANGED << cfgInputs, keymaps, cfg_timeout, cfg_protocol, devTimeout, clear, chdev, fileIdx, entries, entryIdx, dfas, options,
                    protocols >>

\* load_keymap(): without a lirc chardev the kernel decoders of the keymap's
\* protocol are collected; with one the keymap is compiled to DFAs
load_keymap_decoder ==
    /\ pc = "load_keymap_decoder"
    /\ LET keymap == entries[entryIdx + 1]
           decoders == find_decoder(keymap.protocol)
       IN  IF ~chdev
           THEN /\ IF decoders # << >> /\ \A i \in 1..Len(decoders[1]) :
                                              position(decoders[1][i]) # << >>
                   THEN /\ protocols' =
                               protocols \o
                               SelectSeq([i \in 1..Len(decoders[1]) |->
                                             position(decoders[1][i])[1]],
                                         LAMBDA index_ : index_ \notin Range(protocols))
                        /\ entryIdx' = entryIdx + 1
                        /\ keyIdx' = 0
                        /\ pc' = "load_keymap"
                        /\ UNCHANGED exitCode
                   ELSE /\ Exit(1)
                        /\ UNCHANGED << protocols, entryIdx, keyIdx >>
                /\ UNCHANGED << options, dfas, devTimeout >>
           ELSE \E timeout \in Timeouts, overflowChecks, buildOk \in BOOLEAN :
                   /\ devTimeout' = timeout
                   /\ IF overflows(timeout) /\ overflowChecks
                      THEN /\ pc' = "overflow"
                           /\ UNCHANGED << options, dfas, exitCode >>
                      ELSE /\ options' = << keymap_options(timeout) >>
                           /\ IF buildOk
                              THEN /\ dfas' = keymap.variants
                                   /\ pc' = "load_keymap_attach"
                                   /\ UNCHANGED exitCode
                              ELSE /\ Exit(1)
                                   /\ UNCHANGED dfas
                   /\ UNCHANGED << protocols, entryIdx, keyIdx >>
    /\ UNCHANGED << cfgInputs, keymaps, cfg_timeout, cfg_protocol, clear, chdev, fileIdx,
                    entries, calls, lookups >>

\* load_keymap(): the next DFA of the keymap is compiled to BPF and attached
load_keymap_attach ==
    /\ pc = "load_keymap_attach"
    /\ IF dfas = 0
       THEN /\ entryIdx' = entryIdx + 1
            /\ keyIdx' = 0
            /\ pc' = "load_keymap"
            /\ UNCHANGED << dfas, calls, exitCode >>
       ELSE \E outcome \in AttachOutcomes :
               /\ calls' = calls \o attach_step(outcome, options[1]).calls
               /\ IF attach_step(outcome, options[1]).ok
                  THEN /\ dfas' = dfas - 1
                       /\ UNCHANGED << pc, exitCode >>
                  ELSE /\ Exit(1)
                       /\ UNCHANGED dfas
               /\ UNCHANGED << entryIdx, keyIdx >>
    /\ UNCHANGED << cfgInputs, keymaps, cfg_timeout, cfg_protocol, devTimeout, clear, chdev,
                    fileIdx, entries, options, protocols, lookups >>

\* load_lircd(): the next remote is compiled to BPF and attached to the lirc
\* chardev; without a chardev the process ends
load_lircd_remote ==
    /\ pc = "load_lircd"
    /\ IF entryIdx >= Len(entries)
       THEN /\ pc' = "keymap_loop"
            /\ UNCHANGED << options, calls, exitCode, devTimeout >>
       ELSE IF ~chdev
       THEN /\ Exit(1)
            /\ UNCHANGED << options, calls, devTimeout >>
       ELSE \E timeout \in Timeouts, overflowChecks \in BOOLEAN, outcome \in AttachOutcomes :
               /\ devTimeout' = timeout
               /\ IF overflows(timeout) /\ overflowChecks
                  THEN /\ pc' = "overflow"
                       /\ UNCHANGED << options, calls, exitCode >>
                  ELSE /\ options' = << lircd_options(timeout) >>
                       /\ calls' = calls \o attach_step(outcome, lircd_options(timeout)).calls
                       /\ IF attach_step(outcome, lircd_options(timeout)).ok
                          THEN /\ pc' = "load_lircd_codes"
                               /\ UNCHANGED exitCode
                          ELSE Exit(1)
    /\ UNCHANGED << cfgInputs, keymaps, cfg_timeout, cfg_protocol, clear, chdev, fileIdx,
                    entries, entryIdx, keyIdx, dfas, protocols, lookups >>

\* load_lircd(): the next code of the remote is registered under its
\* normalised key name; a name that is no keycode is skipped
load_lircd_code ==
    /\ pc = "load_lircd_codes"
    /\ IF keyIdx >= Len(entries[entryIdx + 1].keys)
       THEN /\ entryIdx' = entryIdx + 1
            /\ keyIdx' = 0
            /\ pc' = "load_lircd"
            /\ UNCHANGED << calls, lookups, exitCode >>
       ELSE LET code == entries[entryIdx + 1].keys[keyIdx + 1]
                name == lircd_key_name(code)
                key == from_str(name)
            IN  /\ keyIdx' = keyIdx + 1
                /\ lookups' = lookups \o
                       << [format |-> "lircd", name |-> code, looked |-> name] >>
                /\ UNCHANGED entryIdx
                /\ IF key = << >>
                   THEN UNCHANGED << pc, calls, exitCode >>
                   ELSE \E ok \in BOOLEAN :
                           /\ calls' = calls \o << Call("update_scancode", ok, key[1]) >>
                           /\ IF ok THEN UNCHANGED << pc, exitCode >> ELSE Exit(1)
    /\ UNCHANGED << cfgInputs, keymaps, cfg_timeout, cfg_protocol, devTimeout, clear, chdev, fileIdx, entries, dfas, options, protocols >>

\* config(): the auto repeat of the input device is set when DELAY or PERIOD
\* is given
config_repeat ==
    /\ pc = "config"
    /\ \E repeat \in {"unset", "open_failed", "unsupported", "update_failed", "updated"} :
          /\ UNCHANGED calls
          /\ CASE repeat \in {"unset", "updated"} ->
                      /\ pc' = "config_clear"
                      /\ UNCHANGED exitCode
               [] repeat = "unsupported" ->
                      /\ pc' = "panic"
                      /\ UNCHANGED exitCode
               [] OTHER -> Exit(1)
    /\ UNCHANGED << cfgInputs, keymaps, cfg_timeout, cfg_protocol, devTimeout, clear, chdev,
                    fileIdx, entries, entryIdx, keyIdx, dfas, options, protocols, lookups >>

\* config(): with CLEAR the scancodes and the BPF programs are cleared
config_clear ==
    /\ pc = "config_clear"
    /\ \E clearArg, scanOk, openOk, bpfOk \in BOOLEAN :
          /\ clear' = clearArg
          /\ IF clearArg
             THEN LET opened == scanOk /\ lircdev /\ openOk
                      ok == scanOk /\ (lircdev => openOk /\ bpfOk)
                  IN  /\ calls' = calls \o << Call("clear_scancodes", scanOk, << >>) >>
                                  \o (IF opened
                                      THEN << Call("clear_bpf", bpfOk, << >>) >> ELSE << >>)
                      /\ IF ok
                         THEN /\ pc' = "config_timeout"
                              /\ UNCHANGED exitCode
                         ELSE Exit(1)
             ELSE /\ pc' = "config_timeout"
                  /\ UNCHANGED << calls, exitCode >>
    /\ UNCHANGED << cfgInputs, keymaps, cfg_timeout, cfg_protocol, devTimeout, chdev, fileIdx,
                    entries, entryIdx, keyIdx, dfas, options, protocols, lookups >>

\* the TIMEOUT arguments of config
TimeoutArgs == {<< >>, << 50000 >>}

\* config(): with TIMEOUT the timeout of the lirc device is set
config_timeout ==
    /\ pc = "config_timeout"
    /\ \E timeout \in TimeoutArgs, openOk, setOk \in BOOLEAN :
          /\ cfg_timeout' = timeout
          /\ IF timeout = << >>
             THEN /\ pc' = "config_scankey"
                  /\ UNCHANGED << calls, devTimeout, exitCode >>
             ELSE IF ~lircdev \/ ~openOk
             THEN /\ Exit(1)
                  /\ UNCHANGED << calls, devTimeout >>
             ELSE /\ calls' = calls \o << Call("set_timeout", setOk, timeout) >>
                  /\ IF setOk
                     THEN /\ devTimeout' = timeout
                          /\ pc' = "config_scankey"
                          /\ UNCHANGED exitCode
                     ELSE /\ Exit(1)
                          /\ UNCHANGED devTimeout
    /\ keyIdx' = 0
    /\ UNCHANGED << cfgInputs, keymaps, cfg_protocol, clear, chdev, fileIdx, entries, entryIdx,
                    dfas, options, protocols, lookups >>

\* config() ending at a SCANKEY name that is no keycode
config_scankey_fatal ==
    /\ pc = "config_scankey"
    /\ IF keyIdx >= Len(scankey)
       THEN /\ pc' = "config_protocol"
            /\ UNCHANGED << keyIdx, calls, lookups, exitCode >>
       ELSE LET keycode == scankey[keyIdx + 1]
                key == from_str(keycode)
            IN  /\ keyIdx' = keyIdx + 1
                /\ lookups' = lookups \o
                       << [format |-> "scankey", name |-> keycode, looked |-> keycode] >>
                /\ IF key = << >>
                   THEN /\ Exit(1)
                        /\ UNCHANGED calls
                   ELSE \E ok \in BOOLEAN :
                           /\ calls' = calls \o << Call("update_scancode", ok, key[1]) >>
                           /\ IF ok THEN UNCHANGED << pc, exitCode >> ELSE Exit(1)
    /\ UNCHANGED << cfgInputs, keymaps, cfg_timeout, cfg_protocol, devTimeout, clear, chdev,
                    fileIdx, entries, entryIdx, dfas, options, protocols >>

\* config(): the next SCANKEY pair is registered; a name that is no keycode
\* is skipped
config_scankey ==
    /\ pc = "config_scankey"
    /\ IF keyIdx >= Len(scankey)
       THEN /\ pc' = "config_protocol"
            /\ UNCHANGED << keyIdx, calls, lookups, exitCode >>
       ELSE LET keycode == scankey[keyIdx + 1]
                key == from_str(keycode)
            IN  /\ keyIdx' = keyIdx + 1
                /\ lookups' = lookups \o
                       << [format |-> "scankey", name |-> keycode, looked |-> keycode] >>
                /\ IF key = << >>
                   THEN UNCHANGED << pc, calls, exitCode >>
                   ELSE \E ok \in BOOLEAN :
                           /\ calls' = calls \o << Call("update_scancode", ok, key[1]) >>
                           /\ IF ok THEN UNCHANGED << pc, exitCode >> ELSE Exit(1)
    /\ UNCHANGED << cfgInputs, keymaps, cfg_timeout, cfg_protocol, devTimeout, clear, chdev,
                    fileIdx, entries, entryIdx, dfas, options, protocols >>

\* the PROTOCOL arguments of config
ProtocolArgs == SeqsUpTo({"", "all", "rc-5", "sony"}, MaxProtocols)

\* the positions of rcdev.supported_protocols that res does not hold yet
missing_positions(res) ==
    SelectSeq([pos \in 1..Len(supported_protocols) |-> pos], LAMBDA pos : pos \notin Range(res))

\* config() adding a position for every mention of a protocol
RECURSIVE config_protocols_repeating(_, _, _)
config_protocols_repeating(names, i, res) ==
    IF i > Len(names) THEN << res >>
    ELSE IF names[i] = "" THEN config_protocols_repeating(names, i + 1, res)
    ELSE IF names[i] = "all"
    THEN config_protocols_repeating(names, i + 1,
                                    res \o [pos \in 1..Len(supported_protocols) |-> pos])
    ELSE IF position(names[i]) # << >>
    THEN config_protocols_repeating(names, i + 1, Append(res, position(names[i])[1]))
    ELSE << >>

\* config(): the positions of the protocols named, << >> when one of the
\* names is not supported
RECURSIVE config_protocols(_, _, _)
config_protocols(names, i, res) ==
    IF i > Len(names) THEN << res >>
    ELSE IF names[i] = "" THEN config_protocols(names, i + 1, res)
    ELSE IF names[i] = "all"
    THEN config_protocols(names, i + 1, res \o missing_positions(res))
    ELSE IF position(names[i]) # << >>
    THEN config_protocols(names, i + 1,
                          IF position(names[i])[1] \in Range(res)
                          THEN res ELSE Append(res, position(names[i])[1]))
    ELSE << >>

\* config(): with PROTOCOL the protocols named are enabled
config_protocol ==
    /\ pc = "config_protocol"
    /\ \E names \in ProtocolArgs, ok \in BOOLEAN :
          /\ cfg_protocol' = names
          /\ IF names = << >>
             THEN /\ pc' = "config_irp"
                  /\ UNCHANGED << protocols, calls, exitCode >>
             ELSE IF config_protocols(names, 1, << >>) = << >>
             THEN /\ Exit(1)
                  /\ UNCHANGED << protocols, calls >>
             ELSE /\ protocols' = config_protocols(names, 1, << >>)[1]
                  /\ calls' = calls \o << Call("set_enabled_protocols", ok,
                                               config_protocols(names, 1, << >>)[1]) >>
                  /\ IF ok
                     THEN /\ pc' = "config_irp"
                          /\ UNCHANGED exitCode
                     ELSE Exit(1)
    /\ UNCHANGED << cfgInputs, keymaps, cfg_timeout, devTimeout, clear, chdev, fileIdx, entries,
                    entryIdx, keyIdx, dfas, options, lookups >>

\* config(): the Options the IRP is compiled with
config_options(max_gap) ==
    [aeps |-> unwrap_or(decode_options[1].aeps, 100),
     eps |-> unwrap_or(decode_options[1].eps, 3),
     max_gap |-> max_gap]

\* config(): the chardev was checked when it was opened; the IRP is compiled
\* to BPF and attached: the calls made and whether all went well
config_attach_step(outcome, opts) ==
    IF outcome \in {"not_raw", "no_bpf", "query_failed", "compile_failed"}
    THEN [calls |-> check_calls(outcome), ok |-> FALSE]
    ELSE [calls |-> check_calls(outcome)
                    \o << Call("attach_bpf", outcome = "attached", opts) >>,
          ok |-> outcome = "attached"]

\* config(): with IRP the decoder is compiled and attached to the lirc
\* chardev; max_gap is the TIMEOUT given, else 90% of the timeout the device
\* reports
config_irp ==
    /\ pc = "config_irp"
    /\ \E irp \in {"none", "parse_failed", "ok"},
          outcome \in {"open_failed"} \cup AttachOutcomes,
          timeout \in Timeouts, overflowChecks \in BOOLEAN :
          /\ IF irp = "none"
             THEN /\ pc' = "done"
                  /\ exitCode' = << 0 >>
                  /\ UNCHANGED << calls, options, devTimeout >>
             ELSE IF irp = "parse_failed" \/ ~lircdev \/ outcome = "open_failed"
             THEN /\ Exit(1)
                  /\ UNCHANGED << calls, options, devTimeout >>
             ELSE IF outcome \in {"not_raw", "no_bpf", "query_failed"}
             THEN /\ calls' = calls \o config_attach_step(outcome, DefaultOptions).calls
                  /\ Exit(1)
                  /\ UNCHANGED << options, devTimeout >>
             ELSE IF cfg_timeout # << >>
             THEN LET opts == config_options(cfg_timeout[1])
                  IN  /\ options' = << opts >>
                      /\ calls' = calls \o config_attach_step(outcome, opts).calls
                      /\ IF config_attach_step(outcome, opts).ok
                         THEN /\ pc' = "done"
                              /\ exitCode' = << 0 >>
                         ELSE Exit(1)
                      /\ UNCHANGED devTimeout
             ELSE /\ devTimeout' = timeout
                  /\ IF overflows(timeout) /\ overflowChecks
                     THEN /\ calls' = calls \o check_calls(outcome)
                          /\ pc' = "overflow"
                          /\ UNCHANGED << options, exitCode >>
                     ELSE LET opts == config_options(max_gap_of(timeout))
                          IN  /\ options' = << opts >>
                              /\ calls' = calls \o config_attach_step(outcome, opts).calls
                              /\ IF config_attach_step(outcome, opts).ok
                                 THEN /\ pc' = "done"
                                      /\ exitCode' = << 0 >>
                                 ELSE Exit(1)
          /\ chdev' = (irp = "ok" /\ lircdev
                        /\ outcome \in {"compile_failed", "attach_failed", "attached"})
    /\ UNCHANGED << cfgInputs, keymaps, cfg_timeout, cfg_protocol, clear, fileIdx, entries,
                    entryIdx, keyIdx, dfas, protocols, lookups >>

CfgNext ==
    \/ load
    \/ auto
    \/ load_keymaps
    \/ load_keymaps_next
    \/ load_keymap_parse
    \/ load_lircd_parse
    \/ load_keymap_scancode
    \/ load_keymap_decoder
    \/ load_keymap_attach
    \/ load_lircd_remote
    \/ load_lircd_code
    \/ config_repeat
    \/ config_clear
    \/ config_timeout
    \/ config_scankey
    \/ config_protocol
    \/ config_irp

SpecConfig == CfgInit /\ [][CfgNext]_vars

\* ---------------------------------------------- claims on load and auto

\* the calls before call k of the log
Before(k) == {calls[j] : j \in 1..(k - 1)}

\* C1: in load and auto, every update_scancode and attach_bpf comes after a
\* clear_scancodes that succeeded and, when the device has a lirc chardev,
\* after a clear_bpf that succeeded; every attach_bpf comes after a
\* successful clear_bpf; and a clear that failed is the last call made: no
\* update_scancode, attach_bpf or set_enabled_protocols follows it
C1_ClearsBeforeUpdates ==
    command \in {"load", "auto"} =>
    \A k \in 1..Len(calls) :
        /\ calls[k].op \in {"update_scancode", "attach_bpf"} =>
              /\ Call("clear_scancodes", TRUE, << >>) \in Before(k)
              /\ lircdev => Call("clear_bpf", TRUE, << >>) \in Before(k)
        /\ calls[k].op = "attach_bpf" => Call("clear_bpf", TRUE, << >>) \in Before(k)
        /\ (calls[k].op \in {"clear_scancodes", "clear_bpf"} /\ ~calls[k].ok) =>
              \A j \in (k + 1)..Len(calls) :
                  calls[j].op \notin {"update_scancode", "attach_bpf",
                                      "set_enabled_protocols"}

\* a load or auto run over a lirc chardev cleared both, registered a
\* scancode, attached a BPF program and enabled the protocols
C1_Witness ==
    /\ command \in {"load", "auto"}
    /\ pc = "done"
    /\ lircdev
    /\ \E i, j, k \in 1..Len(calls) :
          /\ calls[i].op = "update_scancode" /\ calls[i].ok
          /\ calls[j].op = "attach_bpf" /\ calls[j].ok
          /\ calls[k].op = "set_enabled_protocols"

\* the key name the registry is asked for: the uppercased name, with KEY_ in
\* front exactly when the uppercased name does not start with it
NormalisedKeyName(name) ==
    IF starts_with(to_uppercase(name), KEY_)
    THEN to_uppercase(name)
    ELSE KEY_ \o to_uppercase(name)

\* C7: every key name, of a lircd.conf remote and of a keymap alike, is
\* looked up in the keycode registry in its normalised form; normalising is
\* idempotent and a name that has the prefix in any letter case does not get
\* a second one
C7_KeyNamesNormalised ==
    \A k \in 1..Len(lookups) :
        lookups[k].format \in {"lircd", "keymap"} =>
        /\ lookups[k].looked = NormalisedKeyName(lookups[k].name)
        /\ NormalisedKeyName(lookups[k].looked) = lookups[k].looked
        /\ starts_with(to_uppercase(lookups[k].name), KEY_) =>
              ~starts_with(lookups[k].looked, KEY_ \o KEY_)

\* floor(9 * t / 10), computed without a product that leaves the integers
Exact90(t) == 9 * (t \div 10) + (9 * (t % 10)) \div 10

\* C14: the computation of max_gap never overflows, and the Options a decoder
\* is compiled with have a max_gap of 90% of the timeout of the lirc device,
\* floor(9 * t / 10), and of 100000 when the device has none; in load_keymap,
\* load_lircd and config, also when config has set the timeout of the device
C14_MaxGapIsNinetyPercent ==
    /\ pc # "overflow"
    /\ options # << >> =>
          options[1].max_gap = IF devTimeout = << >> THEN 100000
                               ELSE Exact90(devTimeout[1])

\* call k is a check of the chardev that it did not pass
FailedCheck(k) ==
    \/ calls[k].op = "can_receive_raw" /\ ~calls[k].ok
    \/ calls[k].op = "query_bpf" /\ (~calls[k].ok \/ calls[k].arg = << "none" >>)

\* C15: in config, load_keymap and load_lircd every attach_bpf comes after a
\* can_receive_raw that returned true and a query_bpf that returned Ok(Some);
\* a check the chardev does not pass is the last call made and the command
\* has exited with status 1, so that no decoder is attached after it
C15_AttachOnlyAfterChecks ==
    \A k \in 1..Len(calls) :
        /\ calls[k].op = "attach_bpf" =>
              /\ \E j \in 1..(k - 1) : calls[j].op = "can_receive_raw" /\ calls[j].ok
              /\ \E j \in 1..(k - 1) :
                    calls[j].op = "query_bpf" /\ calls[j].ok /\ calls[j].arg = << "some" >>
        /\ FailedCheck(k) =>
              /\ k = Len(calls)
              /\ pc = "exit"
              /\ exitCode = << 1 >>

\* a keymap had one decoder attached, and the chardev did not pass the check
\* before the next one
C15_Witness ==
    /\ pc = "exit"
    /\ calls # << >>
    /\ FailedCheck(Len(calls))
    /\ \E k \in 1..Len(calls) : calls[k].op = "attach_bpf" /\ calls[k].ok

\* the positions a PROTOCOL name mentions
Mentioned(name) ==
    IF name = "" THEN << >>
    ELSE IF name = "all" THEN [pos \in 1..Len(supported_protocols) |-> pos]
    ELSE position(name)

RECURSIVE Mentions(_)
\* the positions the names mention, one after the other
Mentions(names) ==
    IF names = << >> THEN << >> ELSE Mentioned(Head(names)) \o Mentions(Tail(names))

\* the positions of m, each at its first mention
FirstMentions(m) ==
    LET first == {i \in 1..Len(m) : \A j \in 1..(i - 1) : m[j] # m[i]}
        nth[n \in 0..Len(m)] ==
            IF n = 0 THEN 0 ELSE CHOOSE i \in first : i > nth[n - 1] /\
                                     \A j \in first : j > nth[n - 1] => i <= j
    IN  [n \in 1..Cardinality(first) |-> m[nth[n]]]

\* name is a protocol the device does not support
Unsupported(name) == name \notin {"", "all"} /\ position(name) = << >>

\* the positions of the kernel decoders of the keymaps loaded
KeymapDecoders ==
    {pos \in 1..Len(supported_protocols) :
        \E f \in 1..Len(keymaps) : \E e \in 1..Len(KeymapFiles[keymaps[f]].entries) :
            LET decoders == find_decoder(KeymapFiles[keymaps[f]].entries[e].protocol)
            IN  /\ ~KeymapFiles[keymaps[f]].lircd
                /\ decoders # << >>
                /\ supported_protocols[pos] \in Range(decoders[1])}

\* the calls of set_enabled_protocols
Enabling == {k \in 1..Len(calls) : calls[k].op = "set_enabled_protocols"}

\* C16: the list passed to set_enabled_protocols has no duplicates and holds
\* valid positions of supported_protocols only. In config it holds the
\* positions the PROTOCOL names mention, in the order of their first mention,
\* "all" mentioning every position and "" none, and with an unsupported name
\* the command exits without the call. In load and auto the call is made at
\* most once, after all keymaps, it is made when the command ends well, and
\* its list holds positions of kernel decoders of the keymaps loaded only,
\* and nothing when the device has a lirc chardev
C16_EnabledProtocols ==
    /\ \A k \in Enabling :
          /\ \A i, j \in 1..Len(calls[k].arg) : calls[k].arg[i] = calls[k].arg[j] => i = j
          /\ \A i \in 1..Len(calls[k].arg) : calls[k].arg[i] \in 1..Len(supported_protocols)
    /\ command = "config" =>
          /\ \A k \in Enabling :
                /\ \A i \in 1..Len(cfg_protocol) : ~Unsupported(cfg_protocol[i])
                /\ calls[k].arg = FirstMentions(Mentions(cfg_protocol))
          /\ (\E i \in 1..Len(cfg_protocol) : Unsupported(cfg_protocol[i])) =>
                Enabling = {} /\ pc = "exit" /\ exitCode = << 1 >>
          /\ (cfg_protocol # << >> /\ pc \in {"config_irp", "done"}) => Enabling # {}
    /\ command \in {"load", "auto"} =>
          /\ Cardinality(Enabling) <= 1
          /\ pc = "done" => Enabling # {}
          /\ \A k \in Enabling :
                /\ k = Len(calls)
                /\ fileIdx = Len(keymaps)
                /\ pc \in {"done", "exit"}
                /\ Range(calls[k].arg) \subseteq KeymapDecoders
                /\ lircdev => calls[k].arg = << >>

\* config enabled the protocols of the names rc-5 and all: the position of
\* rc-5 comes first and is not repeated
C16_Witness ==
    /\ command = "config"
    /\ cfg_protocol = << "rc-5", "all" >>
    /\ \E k \in Enabling : calls[k].arg = << 2, 1 >>

\* the calls of update_scancode
Updates == SelectSeq(calls, LAMBDA c : c.op = "update_scancode")

\* the lookups that found a keycode
ValidLookups == SelectSeq(lookups, LAMBDA l : from_str(l.looked) # << >>)

\* every pair with a valid keycode went to update_scancode, in table order,
\* and no other pair did; an update_scancode that failed is the last call
\* and the command has exited with status 1
ValidPairsRegistered ==
    /\ Len(Updates) = Len(ValidLookups)
    /\ \A k \in 1..Len(Updates) :
          /\ Updates[k].arg = ValidLookups[k].looked
          /\ k < Len(Updates) => Updates[k].ok
    /\ \A k \in 1..Len(calls) :
          (calls[k].op = "update_scancode" /\ ~calls[k].ok) =>
              k = Len(calls) /\ pc = "exit" /\ exitCode = << 1 >>

\* a step that looks up a name that is no keycode calls nothing, stays in
\* its loop and goes on to the next pair
InvalidNameSkipped ==
    (Len(lookups') = Len(lookups) + 1 /\ from_str(lookups'[Len(lookups')].looked) = << >>) =>
        /\ calls' = calls
        /\ pc' = pc
        /\ exitCode' = exitCode
        /\ keyIdx' = keyIdx + 1

\* C17: in config, load_keymap and load_lircd a key name that is no keycode is
\* skipped: update_scancode is not called for it, the command does not exit
\* and goes on with the next pair, so that the scancodes registered are those
\* of the pairs with a valid keycode, in table order; an update_scancode that
\* fails ends the command at once
C17_InvalidKeyNotFatal == [](ValidPairsRegistered) /\ [][InvalidNameSkipped]_vars

\* a table had a name that is no keycode before a valid one, and the valid
\* one was registered
C17_Witness ==
    /\ Len(lookups) >= 2
    /\ from_str(lookups[Len(lookups) - 1].looked) = << >>
    /\ from_str(lookups[Len(lookups)].looked) # << >>
    /\ calls # << >>
    /\ calls[Len(calls)].op = "update_scancode"
    /\ calls[Len(calls)].ok
    /\ calls[Len(calls)].arg = lookups[Len(lookups)].looked

\* the entries of the rc_maps file that match the device
Matches == {i \in 1..Len(rc_maps[1]) : rc_maps[1][i].matches}

\* the files of the matching entries, in the order of the rc_maps file
MatchingFiles ==
    [k \in 1..Cardinality(Matches) |->
        rc_maps[1][CHOOSE i \in Matches : Cardinality({j \in Matches : j < i}) = k - 1].file]

\* C18: auto exits with status 1 when the rc device has no input device and
\* when the rc_maps file cannot be parsed, and with status 2 when no entry
\* matches the device, in each case without a call on the device: no
\* clear_scancodes, clear_bpf, update_scancode, attach_bpf or
\* set_enabled_protocols; otherwise the keymaps loaded are the files of the
\* matching entries, in file order
C18_AutoErrorPaths ==
    (command = "auto" /\ pc # "auto") =>
        IF ~inputdev \/ rc_maps = << >>
        THEN pc = "exit" /\ exitCode = << 1 >> /\ calls = << >> /\ keymaps = << >>
        ELSE IF Matches = {}
        THEN pc = "exit" /\ exitCode = << 2 >> /\ calls = << >> /\ keymaps = << >>
        ELSE keymaps = MatchingFiles

\* auto read an rc_maps file with entries none of which matches the device,
\* and exited with status 2
C18_Witness ==
    /\ command = "auto"
    /\ inputdev
    /\ rc_maps # << >>
    /\ rc_maps[1] # << >>
    /\ Matches = {}
    /\ pc = "exit"
    /\ exitCode = << 2 >>

\* ------------------------------------------------- graphviz.rs, the dump

\* the character with code 65 + k
Letter(k) ==
    << "A", "B", "C", "D", "E", "F", "G", "H", "I", "J", "K", "L", "M",
       "N", "O", "P", "Q", "R", "S", "T", "U", "V", "W", "X", "Y", "Z" >>[k + 1]

\* no_to_name() with each character put at the end of res
RECURSIVE no_to_name_appending(_, _)
no_to_name_appending(no, res) ==
    LET ch == Letter(no % 26)
    IN  IF no \div 26 = 0
        THEN res \o << ch >>
        ELSE no_to_name_appending(no \div 26, res \o << ch >>)

\* no_to_name(): the loop puts the character of no % 26 in front of res and
\* goes on with no / 26 until that is 0
RECURSIVE no_to_name_loop(_, _)
no_to_name_loop(no, res) ==
    LET ch == Letter(no % 26)
    IN  IF no \div 26 = 0
        THEN << ch >> \o res
        ELSE no_to_name_loop(no \div 26, << ch >> \o res)

no_to_name(no) == no_to_name_loop(no, << >>)

\* the text "{id} ({no})"
Name(id, no) == [id |-> id, no |-> no]

has_done(v) == \E k \in 1..Len(v.actions) : v.actions[k].a = "Done"

\* graphviz(): the name of vertex no
vert_name(v, no) ==
    IF has_done(v)
    THEN Name(<< "d", "o", "n", "e" >>, no)
    ELSE Name(no_to_name(Len(vert_names)), no)

\* graphviz(): the label of an action
action_label(a) ==
    CASE a.a = "Set" -> [text |-> "{var} = {expr}", arg |-> << a.var, a.expr >>]
      [] a.a = "AssertEq" -> [text |-> "assert {left} = {right}", arg |-> << a.var, a.expr >>]
      [] a.a = "Done" -> [text |-> "{event} ({res})", arg |-> << a.var, a.res >>]

\* the edges of v of one variant
edges_of(v, variant) == SelectSeq(v.edges, LAMBDA e : e.e = variant)

\* graphviz(): the label of the first edge of a variant that has a condition
cond_labels(v, variant, text) ==
    IF edges_of(v, variant) = << >> THEN << >>
    ELSE << [text |-> text, arg |-> << edges_of(v, variant)[1].expr >>] >>

\* the entries of the states annotation at vertex no
states_at(no) == SelectSeq(states, LAMBDA st : st.node = no)

\* graphviz(): the label of the state found at vertex no
state_labels(no) ==
    IF states_at(no) = << >> THEN << >>
    ELSE << [text |-> "state: {name}={val}", arg |-> << states_at(no)[1].vars >>] >>

\* graphviz(): the labels of vertex no
vert_labels(v, no) ==
    [k \in 1..Len(v.actions) |-> action_label(v.actions[k])]
    \o cond_labels(v, "BranchCond", "cond: {expr}")
    \o cond_labels(v, "MayBranchCond", "may cond: {expr}")
    \o state_labels(no)

\* graphviz(): the colour of vertex no
color(no) == IF states_at(no) # << >> THEN " [color=red]" ELSE ""

NoName == Name(<< >>, 0)

\* a line of the dot file
Node(name, labels, col) ==
    [kind |-> "node", name |-> name, to |-> NoName, labels |-> labels, color |-> col]
Arrow(from, to, labels) ==
    [kind |-> "edge", name |-> from, to |-> to, labels |-> labels, color |-> ""]
Brace(kind) ==
    [kind |-> kind, name |-> NoName, to |-> NoName, labels |-> << >>, color |-> ""]

\* graphviz(): the declaration of vertex no, if it has labels or a colour
vert_lines(v, no) ==
    IF vert_labels(v, no) # << >>
    THEN << Node(vert_name(v, no), vert_labels(v, no), color(no)) >>
    ELSE IF color(no) # ""
    THEN << Node(vert_name(v, no), << >>, color(no)) >>
    ELSE << >>

\* the label "{text}{length} {tail}" of a flash or gap edge
LengthLabel(text, edge) ==
    [text |-> text, length |-> edge.length,
     tail |-> IF edge.complete THEN " complete" ELSE ""]

\* a label without a length
TextLabel(text) == [text |-> text, length |-> 0, tail |-> ""]

\* graphviz() with the two arrows of a BranchCond going to the same vertex and
\* a gap drawn as a flash
edge_lines_mixed_up(i, edge) ==
    CASE edge.e \in {"Flash", "Gap"} ->
             << Arrow(vert_names[i + 1], vert_names[edge.dest + 1],
                      << LengthLabel("flash ", edge) >>) >>
      [] edge.e = "BranchCond" ->
             << Arrow(vert_names[i + 1], vert_names[edge.dest + 1],
                      << TextLabel("cond: true") >>),
                Arrow(vert_names[i + 1], vert_names[edge.dest + 1],
                      << TextLabel("cond: false") >>) >>
      [] edge.e = "MayBranchCond" ->
             << Arrow(vert_names[i + 1], vert_names[edge.dest + 1],
                      << TextLabel("may branch") >>) >>
      [] edge.e = "Branch" ->
             << Arrow(vert_names[i + 1], vert_names[edge.dest + 1], << >>) >>

\* graphviz(): the lines of an edge of vertex i
edge_lines(i, edge) ==
    CASE edge.e = "Flash" ->
             << Arrow(vert_names[i + 1], vert_names[edge.dest + 1],
                      << LengthLabel("flash ", edge) >>) >>
      [] edge.e = "Gap" ->
             << Arrow(vert_names[i + 1], vert_names[edge.dest + 1],
                      << LengthLabel("gap ", edge) >>) >>
      [] edge.e = "BranchCond" ->
             << Arrow(vert_names[i + 1], vert_names[edge.dest + 1],
                      << TextLabel("cond: true") >>),
                Arrow(vert_names[i + 1], vert_names[edge.no + 1],
                      << TextLabel("cond: false") >>) >>
      [] edge.e = "MayBranchCond" ->
             << Arrow(vert_names[i + 1], vert_names[edge.dest + 1],
                      << TextLabel("may branch") >>) >>
      [] edge.e = "Branch" ->
             << Arrow(vert_names[i + 1], vert_names[edge.dest + 1], << >>) >>

\* a long frame: MaxVerts vertices in a row, flashes and gaps in turn, some of
\* them not complete, a Done in the middle and at the end, a conditional
\* branch back to the start and a speculative edge
GvChain ==
    [k \in 1..MaxVerts |->
        Vertex(IF k = 3 \/ k = MaxVerts THEN << Done("decoded", << "CODE" >>) >> ELSE << >>,
               IF k = MaxVerts THEN << Branch(0) >>
               ELSE IF k = 5 THEN << BranchCond(Below("CODE", 2), 5, 0) >>
               ELSE IF k = 8 THEN << MayBranchCond(Always, 9), Gap(500, 8) >>
               ELSE IF k % 2 = 1
               THEN << [Flash(500, k) EXCEPT !.complete = (k % 3 = 0)] >>
               ELSE << [Gap(500, k) EXCEPT !.complete = (k % 3 = 0)] >>)]

\* the graphs that are dumped
GvGraphs == {NfaLib[g] : g \in 1..Len(NfaLib)} \cup {GvChain}

\* the states annotation: the threads of a matcher, pairwise distinct
StateEntries ==
    {[node |-> n, vars |-> [x \in {"CODE"} |-> c]] : n \in {1, 2}, c \in {1, 2}}

GvStates == {st \in SeqsUpTo(StateEntries, MaxStates) : NoDuplicates(st)}

GvInit ==
    /\ pc = "gv_create"
    /\ irps = << >>
    /\ ProcIdle
    /\ LiveIdle
    /\ CfgIdle
    /\ FdIdle
    /\ verts \in GvGraphs
    /\ states \in GvStates
    /\ vert_names = << >>
    /\ edgeFrom = 0
    /\ edgeNo = 0
    /\ file = << >>

gvOther == << irps, procOnly, liveVars, cfgVars, fdVars, verts, states >>

\* graphviz(): the file is created and the first line written
graphviz_create ==
    /\ pc = "gv_create"
    /\ \E createOk, writeOk \in BOOLEAN :
          IF graphviz_write(createOk, writeOk) = "panic"
          THEN /\ pc' = "panic"
               /\ UNCHANGED file
          ELSE /\ pc' = "gv_verts"
               /\ file' = << Brace("strict digraph {") >>
    /\ UNCHANGED << gvOther, vert_names, edgeFrom, edgeNo >>

\* graphviz(): the first loop names the next vertex and declares it when it
\* has labels or a colour
graphviz_vertex ==
    /\ pc = "gv_verts"
    /\ IF Len(vert_names) < Len(verts)
       THEN LET no == Len(vert_names)
                v == verts[no + 1]
            IN  \E writeOk \in BOOLEAN :
                   IF vert_lines(v, no) # << >> /\ ~writeOk
                   THEN /\ pc' = "panic"
                        /\ UNCHANGED << vert_names, file >>
                   ELSE /\ file' = file \o vert_lines(v, no)
                        /\ vert_names' = Append(vert_names, vert_name(v, no))
                        /\ UNCHANGED pc
       ELSE /\ pc' = "gv_edges"
            /\ UNCHANGED << vert_names, file >>
    /\ UNCHANGED << gvOther, edgeFrom, edgeNo >>

\* graphviz(): the second loop writes the next edge of the next vertex
graphviz_edge ==
    /\ pc = "gv_edges"
    /\ IF edgeFrom >= Len(verts)
       THEN \E writeOk \in BOOLEAN :
               /\ pc' = IF writeOk THEN "gv_done" ELSE "panic"
               /\ file' = IF writeOk THEN Append(file, Brace("}")) ELSE file
               /\ UNCHANGED << edgeFrom, edgeNo >>
       ELSE IF edgeNo >= Len(verts[edgeFrom + 1].edges)
       THEN /\ edgeFrom' = edgeFrom + 1
            /\ edgeNo' = 0
            /\ UNCHANGED << pc, file >>
       ELSE \E writeOk \in BOOLEAN :
               IF writeOk
               THEN /\ file' = file \o edge_lines(edgeFrom, verts[edgeFrom + 1].edges[edgeNo + 1])
                    /\ edgeNo' = edgeNo + 1
                    /\ UNCHANGED << pc, edgeFrom >>
               ELSE /\ pc' = "panic"
                    /\ UNCHANGED << file, edgeFrom, edgeNo >>
    /\ UNCHANGED << gvOther, vert_names >>

GvNext == graphviz_create \/ graphviz_vertex \/ graphviz_edge

SpecGraphviz == GvInit /\ [][GvNext]_vars

\* ------------------------------------------------- claims on the dump

\* the digits of n in base 26, the most significant first, as letters
RECURSIVE Base26(_)
Base26(n) == IF n < 26 THEN << Letter(n) >> ELSE Append(Base26(n \div 26), Letter(n % 26))

\* C11: vertex n is named "done (n)" exactly when its actions hold a Done;
\* any other vertex is named by the letters of n in base 26, most significant
\* first, followed by n; and no two vertices have the same name
C11_VertexNames ==
    /\ \A n \in 0..(Len(vert_names) - 1) :
          vert_names[n + 1] =
              IF \E k \in 1..Len(verts[n + 1].actions) : verts[n + 1].actions[k].a = "Done"
              THEN Name(<< "d", "o", "n", "e" >>, n)
              ELSE Name(Base26(n), n)
    /\ \A m, n \in 1..Len(vert_names) : m # n => vert_names[m] # vert_names[n]

\* all vertices of the long graph are named: the names of the vertices past
\* the 26th have two letters, and a Done vertex is among them
C11_Witness ==
    /\ pc = "gv_edges"
    /\ Len(vert_names) = Len(verts)
    /\ Len(verts) > 26
    /\ Len(vert_names[27].id) = 2
    /\ \E n \in 1..Len(vert_names) : vert_names[n].id = << "d", "o", "n", "e" >>

\* an arrow as the claim describes it: the names it joins, the words of its
\* label, the length in the label and whether "complete" is appended
ArrowOf(i, dest, words, length, complete) ==
    [from |-> vert_names[i + 1], to |-> vert_names[dest + 1], words |-> words,
     length |-> length, complete |-> complete]

\* the arrows the claim gives an edge of vertex i
ClaimedArrows(i, edge) ==
    CASE edge.e = "Flash" -> << ArrowOf(i, edge.dest, "flash", edge.length, edge.complete) >>
      [] edge.e = "Gap" -> << ArrowOf(i, edge.dest, "gap", edge.length, edge.complete) >>
      [] edge.e = "BranchCond" -> << ArrowOf(i, edge.dest, "cond: true", 0, FALSE),
                                     ArrowOf(i, edge.no, "cond: false", 0, FALSE) >>
      [] edge.e = "MayBranchCond" -> << ArrowOf(i, edge.dest, "may branch", 0, FALSE) >>
      [] edge.e = "Branch" -> << ArrowOf(i, edge.dest, "", 0, FALSE) >>

\* the arrows the claim gives the first k edges of vertex i and all edges of
\* the vertices before it
RECURSIVE ClaimedArrowsUpTo(_, _)
ClaimedArrowsUpTo(i, k) ==
    IF i >= Len(verts) \/ k = 0
    THEN IF i = 0 THEN << >> ELSE ClaimedArrowsUpTo(i - 1, Len(verts[i].edges))
    ELSE ClaimedArrowsUpTo(i, k - 1) \o ClaimedArrows(i, verts[i + 1].edges[k])

\* the words of a label, without the blanks around them
Words(text) ==
    CASE text = "flash " -> "flash"
      [] text = "gap " -> "gap"
      [] OTHER -> text

\* an arrow line of the file as names, words, length and complete
ArrowRead(line) ==
    [from |-> line.name, to |-> line.to,
     words |-> IF line.labels = << >> THEN "" ELSE Words(line.labels[1].text),
     length |-> IF line.labels = << >> THEN 0 ELSE line.labels[1].length,
     complete |-> IF line.labels = << >> THEN FALSE ELSE line.labels[1].tail = " complete"]

ArrowsWritten ==
    LET arrows == SelectSeq(file, LAMBDA line : line.kind = "edge")
    IN  [k \in 1..Len(arrows) |-> ArrowRead(arrows[k])]

\* C12: the arrows written so far are, in order, those of the edges handled
\* so far: flash L and gap L with complete exactly for a complete edge, cond:
\* true to yes and cond: false to no for a BranchCond, may branch for a
\* MayBranchCond, no label for a Branch, each from the name of the edge's
\* vertex to the name of the vertex at its destination index
C12_EdgeLabels ==
    pc \in {"gv_edges", "gv_done"} => ArrowsWritten = ClaimedArrowsUpTo(edgeFrom, edgeNo)

\* a graph with edges of every variant, flashes and gaps both complete and
\* not, is written to the end
C12_Witness ==
    /\ pc = "gv_done"
    /\ \A words \in {"flash", "gap", "cond: true", "cond: false", "may branch", ""} :
          \E i \in 1..Len(ArrowsWritten) : ArrowsWritten[i].words = words
    /\ \E i, j \in 1..Len(ArrowsWritten) :
          /\ ArrowsWritten[i].words = "flash" /\ ArrowsWritten[i].complete
          /\ ArrowsWritten[j].words = "flash" /\ ~ArrowsWritten[j].complete

\* the declarations of vertex no written so far
Declared(no) ==
    SelectSeq(file, LAMBDA line : line.kind = "node" /\ line.name = vert_names[no + 1])

\* the Vartables the declaration line shows as state
Shown(line) ==
    {line.labels[k].arg[1] : k \in {j \in 1..Len(line.labels) :
                                        line.labels[j].text = "state: {name}={val}"}}

\* C13 (as claimed): a vertex that occurs in the states annotation is declared
\* in red with the Vartable of every thread at that vertex in its label, and
\* a vertex that occurs in no entry is not coloured
C13_EveryThreadShown ==
    \A no \in 0..(Len(vert_names) - 1) :
        IF \E k \in 1..Len(states) : states[k].node = no
        THEN /\ Len(Declared(no)) = 1
             /\ Declared(no)[1].color = " [color=red]"
             /\ \A k \in 1..Len(states) :
                    states[k].node = no => states[k].vars \in Shown(Declared(no)[1])
        ELSE \A k \in 1..Len(Declared(no)) : Declared(no)[k].color = ""

\* ------------------------------------------ config.rs, find_devices

\* the devices enumerate_rc_dev() may find
MaxDevices == 2

\* the names of rc devices and the paths of lirc chardevs
RcNames == {"rc0", "rc1", "rc2"}

LircPaths == {"/dev/lirc0", "/dev/lirc1"}

\* an rc device: its name, its lirc chardev if it has one, whether
\* Lirc::open succeeds on it and what the chardev can do
Rcdev(name, chardev, opens, can_receive_raw, can_receive_scancodes, can_send) ==
    [name |-> name, lircdev |-> chardev, open |-> opens, raw |-> can_receive_raw,
     scancodes |-> can_receive_scancodes, send |-> can_send]

RcDevices ==
    {Rcdev(name, << >>, FALSE, FALSE, FALSE, FALSE) : name \in RcNames}
    \cup {Rcdev(name, << path >>, FALSE, FALSE, FALSE, FALSE) :
             name \in RcNames, path \in LircPaths}
    \cup {Rcdev(name, << path >>, TRUE, caps[1], caps[2], caps[3]) :
             name \in RcNames, path \in LircPaths,
             caps \in {<< FALSE, FALSE, FALSE >>, << TRUE, FALSE, FALSE >>,
                       << FALSE, TRUE, FALSE >>, << FALSE, FALSE, TRUE >>,
                       << TRUE, FALSE, TRUE >>}}

\* the lists enumerate_rc_dev() returns: no two devices share a name or a
\* lirc chardev
RcLists ==
    {l \in SeqsUpTo(RcDevices, MaxDevices) :
        \A i, j \in 1..Len(l) :
            i # j => /\ l[i].name # l[j].name
                     /\ l[i].lircdev = << >> \/ l[i].lircdev # l[j].lircdev}

\* the arguments of find_devices
RcDeviceArgs ==
    [rc_dev : {<< >>, << "rc1" >>, << "rc9" >>},
     lirc_dev : {<< >>, << "/dev/lirc1" >>, << "/dev/lirc9" >>}]

FdInit ==
    /\ pc = "find_devices"
    /\ irps = << >>
    /\ ProcIdle
    /\ LiveIdle
    /\ CfgIdle
    /\ GvIdle
    /\ list \in RcLists
    /\ enumerated \in BOOLEAN
    /\ device \in RcDeviceArgs
    /\ purpose \in {"Receive", "Transmit"}
    /\ probe = 0
    /\ selected = << >>

\* the variables find_devices leaves alone
fdOther == << irps, procOnly, liveVars, gvVars, command, scankey, rc_maps, cfg_timeout,
              cfg_protocol, devTimeout, clear, lircdev, inputdev, supported_protocols, keymaps,
              decode_options, chdev, fileIdx, entries, entryIdx, keyIdx, dfas, options,
              protocols, calls, lookups, list, enumerated, device, purpose >>

\* find_devices(): the devices are enumerated; without one the process ends
find_devices_enumerate ==
    /\ pc = "find_devices"
    /\ IF ~enumerated \/ list = << >>
       THEN Exit(1)
       ELSE /\ pc' = "find_entry"
            /\ UNCHANGED exitCode
    /\ UNCHANGED << fdOther, probe, selected >>

\* iter().position() over the list by the name of the device
by_name(rcdev) ==
    LET found == {i \in 1..Len(list) : list[i].name = rcdev}
    IN  IF found = {} THEN << >> ELSE << CHOOSE i \in found : \A j \in found : i <= j >>

\* iter().position() over the list by the lirc chardev of the device
by_lircdev(path) ==
    LET found == {i \in 1..Len(list) : list[i].lircdev = << path >>}
    IN  IF found = {} THEN << >> ELSE << CHOOSE i \in found : \A j \in found : i <= j >>

\* find_devices() looking at the lirc device argument first
selection_lirc_first ==
    IF device.lirc_dev # << >> THEN "lirc_dev"
    ELSE IF device.rc_dev # << >> THEN "rc_dev"
    ELSE "capability"

\* find_devices(): what the device is selected by
selection ==
    IF device.rc_dev # << >> THEN "rc_dev"
    ELSE IF device.lirc_dev # << >> THEN "lirc_dev"
    ELSE "capability"

\* find_devices(): a device named by the arguments is looked for in the
\* list; without arguments the capability search starts
find_devices_entry ==
    /\ pc = "find_entry"
    /\ LET found == IF selection = "rc_dev" THEN by_name(device.rc_dev[1])
                    ELSE by_lircdev(device.lirc_dev[1])
       IN  IF selection = "capability"
           THEN /\ pc' = "find_probe"
                /\ UNCHANGED << selected, exitCode >>
           ELSE IF found = << >>
           THEN /\ Exit(1)
                /\ UNCHANGED selected
           ELSE /\ selected' = found
                /\ pc' = "returned"
                /\ UNCHANGED exitCode
    /\ UNCHANGED << fdOther, probe >>

\* the capability find_devices asks of a lirc chardev
capable(rc) ==
    IF purpose = "Receive" THEN rc.raw \/ rc.scancodes ELSE rc.send

\* find_devices(): the closure of the capability search looks at the next
\* device: one without lirc chardev is passed, a chardev that does not open
\* ends the process, and the first capable one is the device found
find_devices_probe ==
    /\ pc = "find_probe"
    /\ IF probe >= Len(list)
       THEN /\ Exit(1)
            /\ UNCHANGED << probe, selected >>
       ELSE LET rc == list[probe + 1]
            IN  IF rc.lircdev = << >>
                THEN /\ probe' = probe + 1
                     /\ UNCHANGED << pc, selected, exitCode >>
                ELSE IF ~rc.open
                THEN /\ Exit(1)
                     /\ UNCHANGED << probe, selected >>
                ELSE IF capable(rc)
                THEN /\ selected' = << probe + 1 >>
                     /\ pc' = "returned"
                     /\ UNCHANGED << probe, exitCode >>
                ELSE /\ probe' = probe + 1
                     /\ UNCHANGED << pc, selected, exitCode >>
    /\ UNCHANGED fdOther

FdNext ==
    \/ find_devices_enumerate
    \/ find_devices_entry
    \/ find_devices_probe

SpecFind == FdInit /\ [][FdNext]_vars

\* device i has a lirc chardev that has the capability of the purpose
HasCapability(i) ==
    /\ list[i].lircdev # << >>
    /\ IF purpose = "Receive" THEN list[i].raw \/ list[i].scancodes ELSE list[i].send

\* the devices the arguments and the purpose ask for
Asked ==
    IF device.rc_dev # << >>
    THEN {i \in 1..Len(list) : list[i].name = device.rc_dev[1]}
    ELSE IF device.lirc_dev # << >>
    THEN {i \in 1..Len(list) : list[i].lircdev = device.lirc_dev}
    ELSE {i \in 1..Len(list) : HasCapability(i)}

\* the capability search meets a chardev that does not open before a device
\* it asks for
OpenFailed ==
    /\ device.rc_dev = << >>
    /\ device.lirc_dev = << >>
    /\ \E j \in 1..Len(list) :
          /\ list[j].lircdev # << >>
          /\ ~list[j].open
          /\ \A i \in Asked : j < i

\* C19: find_devices returns one device of the list: with an rc device name
\* the first device of that name, whatever the lirc device argument; else
\* with a lirc device the first device with that lirc chardev; else the first
\* device that has a lirc chardev with the capability of the purpose, never
\* one without a lirc chardev. It does not return but exits when the list is
\* empty or no device is the one asked for; the only other exits are a
\* failed enumeration and a chardev that does not open
C19_DeviceByPriority ==
    /\ pc = "returned" =>
          /\ enumerated
          /\ Len(selected) = 1
          /\ selected[1] \in Asked
          /\ \A i \in Asked : selected[1] <= i
          /\ selection = "capability" => list[selected[1]].lircdev # << >>
    /\ (pc \in {"returned", "exit"} /\ (list = << >> \/ Asked = {})) =>
          pc = "exit" /\ exitCode = << 1 >> /\ selected = << >>
    /\ pc = "exit" =>
          /\ exitCode = << 1 >>
          /\ ~enumerated \/ list = << >> \/ Asked = {} \/ OpenFailed

\* without arguments a device without lirc chardev was passed and the next
\* one, which receives scancodes only, was returned for Receive
C19_Witness ==
    /\ pc = "returned"
    /\ device = [rc_dev |-> << >>, lirc_dev |-> << >>]
    /\ purpose = "Receive"
    /\ Len(list) = 2
    /\ list[1].lircdev = << >>
    /\ list[2].scancodes /\ ~list[2].raw
    /\ selected = << 2 >>

====
